---- MODULE Spec2Model ----
(***************************************************************************)
(* Model of user_scripts/hypr/adjust_scale.py: the scale step resolver     *)
(* (compute_next_scale), the config patcher (update_config_atomically) and *)
(* the main flow around them.                                              *)
(*                                                                         *)
(* Scales are fixed-point integers.  SCALE_STEPS holds the literals of the *)
(* source times 10^4; a current scale is held in ticks of 10^-7 so that    *)
(* the 1e-6 epsilon of the comparisons is ten ticks.  The integer forms of *)
(* the float comparisons below were compared with the Python expressions   *)
(* for every dimension 1..16000 and every tick offset -30..30 around every *)
(* step; the only inputs on which double rounding decides differently from *)
(* exact arithmetic are listed in ROUNDS_BELOW, ROUNDS_ABOVE_PLUS and      *)
(* ROUNDS_BELOW_MINUS and are modelled as the doubles behave.              *)
(***************************************************************************)
EXTENDS Integers, Sequences, FiniteSets, TLC

VARIABLES
    \* the resolver under test: its arguments, its result, the results so far
    sc_size, sc_cur, sc_dir, sc_ret, sc_trail, sc_mode,
    \* the patcher under test: the file, its content before the last call
    \* and at the start, and the calls made so far
    pt_exists, pt_file, pt_prev, pt_orig, pt_calls,
    \* one run of main: its inputs (sys.argv[1:], HYPR_SCALE_MONITOR, the
    \* config file at the start)
    argv, env_override, fs0,
    \* where main stands, its exit status and its locals
    pc, exit_code, mon_name, phys_size, current_scale, new_scale, polls, actual_scale,
    \* the locals of the running update_config_atomically: which call it is,
    \* its new_scale, the bytes it read, config_text, the step that failed
    up_call, up_scale, up_old, up_new, up_failed,
    \* the directory of the config file: monitors.conf and the temp file
    fs,
    \* the window manager: its monitors, a reload it has yet to apply, and
    \* the scale the config file gave the selected monitor when it read it
    wm_monitors, wm_pending, conf_scale,
    \* what the run did: notify() calls, notifications shown, lines on
    \* stderr, reloads triggered, monitor queries made
    notes, delivered, log, reloads, queries,
    \* a concurrent reader of the config path: what it saw when it opened
    \* the file during an update, and that update's old and new content
    rd_obs, rd_pre, rd_post,
    \* two invocations of update_config_atomically at once: the directory,
    \* the config file at the start, and for each invocation its arguments,
    \* where it stands, the bytes it read and its config_text; the
    \* invocations in the order of their renames
    rc_fs, rc_orig, rc_args, rc_pc, rc_read, rc_text, rc_renamed,
    \* a polling widget of lib/rows.py: its class, _is_destroyed, its busy
    \* flags, its timer source id fields, the timers of the main loop, its
    \* worker threads, the pending idle callbacks, what it shows, the timer
    \* callbacks run so far, how the last worker of each loop ended and the
    \* results the apply callbacks discarded
    w_class, w_destroyed, w_busy, w_source, w_timers, w_threads, w_idle,
    w_shown, w_ticks, w_last, w_dropped,
    \* the search of the control center: the text of the entry,
    \* search_debounce_source, the timers of the main loop, the next source
    \* id, the visible page and the title of the results, the searches
    \* executed, the changes since the last one and in all, and whether
    \* do_shutdown has run
    s_entry, s_source, s_timers, s_next_id, s_view, s_title, s_executed,
    s_burst, s_changes, s_shutdown

scaleVars == <<sc_size, sc_cur, sc_dir, sc_ret, sc_trail, sc_mode>>
patchVars == <<pt_exists, pt_file, pt_prev, pt_orig, pt_calls>>
inputVars == <<argv, env_override, fs0>>
localVars == <<mon_name, phys_size, current_scale, new_scale, polls, actual_scale>>
upVars == <<up_call, up_scale, up_old, up_new, up_failed>>
wmVars == <<wm_monitors, wm_pending>>
outVars == <<notes, delivered, log, reloads, queries>>
rdVars == <<rd_obs, rd_pre, rd_post>>
mainVars == <<inputVars, pc, exit_code, localVars, upVars, fs, wmVars,
              conf_scale, outVars, rdVars>>
raceVars == <<rc_fs, rc_orig, rc_args, rc_pc, rc_read, rc_text, rc_renamed>>
widgetVars == <<w_class, w_destroyed, w_busy, w_source, w_timers, w_threads,
                w_idle, w_shown, w_ticks, w_last, w_dropped>>
searchVars == <<s_entry, s_source, s_timers, s_next_id, s_view, s_title,
                s_executed, s_burst, s_changes, s_shutdown>>
guiVars == <<widgetVars, searchVars>>
vars == <<scaleVars, patchVars, mainVars, raceVars, guiVars>>

----------------------------------------------------------------------------
(* Constants of adjust_scale.py *)

MIN_LOGICAL_WIDTH == 640
MIN_LOGICAL_HEIGHT == 360

\* SCALE_STEPS, each literal times 10^4
SCALE_STEPS ==
    << 5000, 6000, 7500, 8000, 9000, 10000, 10625, 11000, 11250, 11500,
       12000, 12500, 13300, 14000, 15000, 16000, 16700, 17500, 18000,
       18800, 20000, 22500, 24000, 25000, 26700, 28000, 30000 >>

\* one scale unit in the fixed point of SCALE_STEPS
STEP_UNIT == 10000
\* ticks (10^-7) per fixed-point unit of SCALE_STEPS (10^-4)
TICKS_PER_STEP == 1000
\* 0.000001 in ticks
EPSILON == 10
\* 0.01 as the fraction 1/TOLERANCE_INV
TOLERANCE_INV == 100
\* the "no further step" result of compute_next_scale
None == -1
\* the exit status of a process that has not exited
RUNNING == -1
\* range(25): the polls of the verification loop
MAX_POLLS == 25

Ticks(s) == s * TICKS_PER_STEP

----------------------------------------------------------------------------
(* Float comparisons of compute_next_scale, in integers *)

\* <<x, s, m>>: x / s is exactly m but the double quotient is below m
ROUNDS_BELOW == { <<396, 11000, 360>> }
\* steps s for which the double sum (s - 1e-6) + 1e-6 is below s
ROUNDS_ABOVE_PLUS == { 11000, 13300, 16000, 18000 }
\* steps s for which the double difference (s + 1e-6) - 1e-6 is above s
ROUNDS_BELOW_MINUS == { 11500, 12000, 14000, 16700, 18800 }

\* dim / s < minimum, for dim one of phys_w, phys_h
QuotientBelow(dim, s, minimum) ==
    \/ dim * STEP_UNIT < minimum * s
    \/ <<dim, s, minimum>> \in ROUNDS_BELOW

\* abs(l - round(l)) > 0.01 for l = dim / s
OffInteger(dim, s) ==
    LET r == (dim * STEP_UNIT) % s
        d == IF r < s - r THEN r ELSE s - r
    IN  d * TOLERANCE_INV > s

\* the epsilon subtracted where it is added
AboveCurrent_EpsilonSign(s, current) ==
    Ticks(s) > current - EPSILON

\* s > current + 0.000001
AboveCurrent(s, current) ==
    \/ Ticks(s) > current + EPSILON
    \/ Ticks(s) = current + EPSILON /\ s \in ROUNDS_ABOVE_PLUS

\* s < current - 0.000001
BelowCurrent(s, current) ==
    \/ Ticks(s) < current - EPSILON
    \/ Ticks(s) = current - EPSILON /\ s \in ROUNDS_BELOW_MINUS

----------------------------------------------------------------------------
(* compute_next_scale *)

\* the integrality test skipping a step only when both quotients are off
Survives_BothOff(s, phys_w, phys_h) ==
    /\ ~ (QuotientBelow(phys_w, s, MIN_LOGICAL_WIDTH)
            \/ QuotientBelow(phys_h, s, MIN_LOGICAL_HEIGHT))
    /\ ~ (OffInteger(phys_w, s) /\ OffInteger(phys_h, s))

\* the loop body: a step survives both `continue` tests
Survives(s, phys_w, phys_h) ==
    /\ ~ (QuotientBelow(phys_w, s, MIN_LOGICAL_WIDTH)
            \/ QuotientBelow(phys_h, s, MIN_LOGICAL_HEIGHT))
    /\ ~ (OffInteger(phys_w, s) \/ OffInteger(phys_h, s))

FilteredSteps(phys_w, phys_h) ==
    LET Keep(s) == Survives(s, phys_w, phys_h)
    IN  SelectSeq(SCALE_STEPS, Keep)

\* the fallback left out
valid_scales_NoFallback(phys_w, phys_h) ==
    FilteredSteps(phys_w, phys_h)

\* valid_scales after the fallback of lines 89-90
valid_scales(phys_w, phys_h) ==
    LET kept == FilteredSteps(phys_w, phys_h)
    IN  IF kept = <<>> THEN << STEP_UNIT >> ELSE kept

RECURSIVE ListMin(_)
ListMin(q) ==
    IF Len(q) = 1 THEN q[1]
    ELSE LET m == ListMin(Tail(q)) IN IF q[1] < m THEN q[1] ELSE m

RECURSIVE ListMax(_)
ListMax(q) ==
    IF Len(q) = 1 THEN q[1]
    ELSE LET m == ListMax(Tail(q)) IN IF q[1] > m THEN q[1] ELSE m

PlusCandidates(current, phys_w, phys_h) ==
    LET Up(s) == AboveCurrent(s, current)
    IN  SelectSeq(valid_scales(phys_w, phys_h), Up)

MinusCandidates(current, phys_w, phys_h) ==
    LET Down(s) == BelowCurrent(s, current)
    IN  SelectSeq(valid_scales(phys_w, phys_h), Down)

\* min and max exchanged
compute_next_scale_Farthest(current, direction, phys_w, phys_h) ==
    IF direction = "+"
    THEN LET candidates == PlusCandidates(current, phys_w, phys_h)
         IN  IF candidates = <<>> THEN None ELSE ListMax(candidates)
    ELSE LET candidates == MinusCandidates(current, phys_w, phys_h)
         IN  IF candidates = <<>> THEN None ELSE ListMin(candidates)

\* the result is a step (times 10^4) or None
compute_next_scale(current, direction, phys_w, phys_h) ==
    IF direction = "+"
    THEN LET candidates == PlusCandidates(current, phys_w, phys_h)
         IN  IF candidates = <<>> THEN None ELSE ListMin(candidates)
    ELSE LET candidates == MinusCandidates(current, phys_w, phys_h)
         IN  IF candidates = <<>> THEN None ELSE ListMax(candidates)

----------------------------------------------------------------------------
(* Text primitives: a file content is a string, read one character at a     *)
(* time; these are the pieces of Python's re the patterns of                 *)
(* update_config_atomically use                                              *)

Ch(t, i) == IF i >= 1 /\ i <= Len(t) THEN SubSeq(t, i, i) ELSE ""

\* the characters \s matches
WHITESPACE == { " ", "\t", "\n", "\r", "\f" }
\* the characters \w matches
WORD_STRING == "abcdefghijklmnopqrstuvwxyzABCDEFGHIJKLMNOPQRSTUVWXYZ0123456789_"
WORD_CHARS == { SubSeq(WORD_STRING, i, i) : i \in 1..Len(WORD_STRING) }

\* the literal lit stands at position i of t
LitAt(t, i, lit) ==
    /\ i >= 1
    /\ i + Len(lit) - 1 <= Len(t)
    /\ SubSeq(t, i, i + Len(lit) - 1) = lit

\* \s* from position i, greedy: the first position not holding whitespace
RECURSIVE SkipWs(_, _)
SkipWs(t, i) ==
    IF i <= Len(t) /\ Ch(t, i) \in WHITESPACE THEN SkipWs(t, i + 1) ELSE i

\* the first position at or after i holding a character of `stops`, or
\* Len(t) + 1
FindAny(t, i, stops) ==
    CHOOSE j \in i..(Len(t) + 1) :
        /\ j = Len(t) + 1 \/ Ch(t, j) \in stops
        /\ \A k \in i..(j - 1) : Ch(t, k) \notin stops

\* .* from position i: the position of the next newline, or Len(t) + 1
LineEnd(t, i) == FindAny(t, i, { "\n" })

\* ^ under re.MULTILINE
LineStart(t, i) == i = 1 \/ (i > 1 /\ i <= Len(t) + 1 /\ Ch(t, i - 1) = "\n")

\* \b between positions i - 1 and i
WordBoundary(t, i) ==
    (Ch(t, i - 1) \in WORD_CHARS) # (Ch(t, i) \in WORD_CHARS)

\* the first position at or after i holding character c, or Len(t) + 1
Find(t, i, c) == FindAny(t, i, { c })

\* the first position at or after i among the positions `starts` at which a
\* pattern matches in t, or Len(t) + 1: where re.sub, scanning from i, finds
\* its next match
FirstMatch(t, i, starts) ==
    CHOOSE j \in i..(Len(t) + 1) :
        /\ j = Len(t) + 1 \/ j \in starts
        /\ \A k \in i..(j - 1) : k \notin starts

\* str.strip()
RECURSIVE LStrip(_)
LStrip(s) == IF Len(s) > 0 /\ Ch(s, 1) \in WHITESPACE THEN LStrip(Tail(s)) ELSE s
RECURSIVE RStrip(_)
RStrip(s) ==
    IF Len(s) > 0 /\ Ch(s, Len(s)) \in WHITESPACE
    THEN RStrip(SubSeq(s, 1, Len(s) - 1)) ELSE s
Strip(s) == RStrip(LStrip(s))

\* str.split(","): the fields between the commas
RECURSIVE Split(_, _)
Split(s, i) ==
    LET j == Find(s, i, ",")
    IN  IF j > Len(s) THEN << SubSeq(s, i, Len(s)) >>
        ELSE << SubSeq(s, i, j - 1) >> \o Split(s, j + 1)

\* ",".join(parts)
RECURSIVE Join(_)
Join(parts) ==
    IF Len(parts) = 0 THEN ""
    ELSE IF Len(parts) = 1 THEN parts[1]
    ELSE parts[1] \o "," \o Join(Tail(parts))

\* sub in s
Contains(s, sub) == \E i \in 1..(Len(s) + 1) : LitAt(s, i, sub)

----------------------------------------------------------------------------
(* f"{new_scale:g}": six significant digits, trailing zeros removed.  The   *)
(* scale is in ticks of 10^-7.                                               *)

DIGITS == "0123456789"
Digit(d) == SubSeq(DIGITS, d + 1, d + 1)

RECURSIVE Decimal(_)
Decimal(n) == IF n < 10 THEN Digit(n) ELSE Decimal(n \div 10) \o Digit(n % 10)

\* n as exactly `width` digits
RECURSIVE Padded(_, _)
Padded(n, width) ==
    IF width = 0 THEN "" ELSE Padded(n \div 10, width - 1) \o Digit(n % 10)

RECURSIVE StripZeros(_)
StripZeros(s) ==
    IF Len(s) > 0 /\ Ch(s, Len(s)) = "0"
    THEN StripZeros(SubSeq(s, 1, Len(s) - 1)) ELSE s

\* q / 10^places in fixed notation without trailing zeros
Fixed(q, places, unit) ==
    LET frac == StripZeros(Padded(q % unit, places))
    IN  Decimal(q \div unit) \o (IF frac = "" THEN "" ELSE "." \o frac)

\* scales of 0.1 up to 10: five decimals from 1 on, six below
FormatG(ticks) ==
    IF ticks >= 10000000
    THEN Fixed((ticks + 50) \div 100, 5, 100000)
    ELSE Fixed((ticks + 5) \div 10, 6, 1000000)

----------------------------------------------------------------------------
(* update_config_atomically, step 1: monitorv2 blocks *)

\* r"^\s*output\s*=\s*{name}\b" matches in block, starting at line start p
OutputAt(block, p, name) ==
    LET a == SkipWs(block, p)
        b == SkipWs(block, a + 6)
        c == SkipWs(block, b + 1)
    IN  /\ LineStart(block, p)
        /\ LitAt(block, a, "output")
        /\ Ch(block, b) = "="
        /\ LitAt(block, c, name)
        /\ WordBoundary(block, c + Len(name))

HasOutput(block, name) == \E p \in 1..Len(block) : OutputAt(block, p, name)

\* r"(^\s*scale\s*=).*$" matches in block at line start p; the position of "="
ScaleEq(block, p) == SkipWs(block, SkipWs(block, p) + 5)
ScaleAt(block, p) ==
    /\ LineStart(block, p)
    /\ LitAt(block, SkipWs(block, p), "scale")
    /\ Ch(block, ScaleEq(block, p)) = "="

HasScale(block) == \E p \in 1..Len(block) : ScaleAt(block, p)

\* re.sub(r"(^\s*scale\s*=).*$", rf"\1 {new_scale:g}", block), scanning from i
RECURSIVE SubScale(_, _, _)
SubScale(block, i, text) ==
    LET m == FirstMatch(block, i, { j \in i..Len(block) : ScaleAt(block, j) })
    IN  IF m > Len(block) THEN SubSeq(block, i, Len(block))
        ELSE SubSeq(block, i, ScaleEq(block, m)) \o " " \o text
               \o SubScale(block, LineEnd(block, ScaleEq(block, m) + 1), text)

\* the start of the whitespace that ends just before position i
RECURSIVE WsRunStart(_, _)
WsRunStart(t, i) ==
    IF i > 1 /\ Ch(t, i - 1) \in WHITESPACE THEN WsRunStart(t, i - 1) ELSE i

\* re.sub(r"(\s*)\}$", rf"\1    scale = {new_scale:g}\n}}", block)
\* (group 1, the whitespace before the brace, stays where it is)
InsertScale(block, text) ==
    SubSeq(block, 1, Len(block) - 1) \o "    scale = " \o text \o "\n}"

\* the test for an existing scale field left out
v2_replacer_AlwaysInsert(block, name, text) ==
    IF HasOutput(block, name) THEN InsertScale(block, text) ELSE block

\* v2_replacer
v2_replacer(block, name, text) ==
    IF HasOutput(block, name)
    THEN IF HasScale(block) THEN SubScale(block, 1, text)
         ELSE InsertScale(block, text)
    ELSE block

\* r"monitorv2\s*\{[^}]*\}" matches at position i; the position of its "}"
V2Open(t, i) == SkipWs(t, i + 9)
V2Close(t, i) == Find(t, V2Open(t, i) + 1, "}")
V2At(t, i) ==
    /\ LitAt(t, i, "monitorv2")
    /\ Ch(t, V2Open(t, i)) = "{"
    /\ V2Close(t, i) <= Len(t)

\* re.sub(r"monitorv2\s*\{[^}]*\}", v2_replacer, config_text), scanning from i
RECURSIVE SubV2(_, _, _, _)
SubV2(t, i, name, text) ==
    LET m == FirstMatch(t, i, { j \in i..Len(t) : V2At(t, j) })
    IN  IF m > Len(t) THEN SubSeq(t, i, Len(t))
        ELSE SubSeq(t, i, m - 1)
               \o v2_replacer(SubSeq(t, m, V2Close(t, m)), name, text)
               \o SubV2(t, V2Close(t, m) + 1, name, text)

\* `found` after step 1: some matched block names the monitor
RECURSIVE FoundV2(_, _, _)
FoundV2(t, i, name) ==
    LET m == FirstMatch(t, i, { j \in i..Len(t) : V2At(t, j) })
    IN  IF m > Len(t) THEN FALSE
        ELSE \/ HasOutput(SubSeq(t, m, V2Close(t, m)), name)
             \/ FoundV2(t, V2Close(t, m) + 1, name)

----------------------------------------------------------------------------
(* update_config_atomically, step 2: monitor = name, ... lines *)

\* r"^(\s*monitor\s*=\s*)([^,\n]+)(,.*)$" at line start p: where group 2
\* starts, where group 3 starts (the first comma), and where the match ends
V1Eq(t, p) == SkipWs(t, SkipWs(t, p) + 7)
\* [^,\n]+ from position i: the first position holding "," or a newline
NameEnd(t, i) == FindAny(t, i, { ",", "\n" })
\* \s* gives one character back when the name would otherwise be empty
V1Name(t, p) ==
    LET c == SkipWs(t, V1Eq(t, p) + 1)
    IN  IF Ch(t, c) = "," /\ c > V1Eq(t, p) + 1 /\ Ch(t, c - 1) # "\n"
        THEN c - 1 ELSE c
V1Comma(t, p) == NameEnd(t, V1Name(t, p))
V1At(t, p) ==
    /\ LineStart(t, p)
    /\ LitAt(t, SkipWs(t, p), "monitor")
    /\ Ch(t, V1Eq(t, p)) = "="
    /\ V1Comma(t, p) > V1Name(t, p)
    /\ Ch(t, V1Comma(t, p)) = ","

\* re.search(r'(\s*#.*)', remainder): where the comment starts, or Len + 1
CommentStart(remainder) ==
    LET h == Find(remainder, 1, "#")
    IN  IF h > Len(remainder) THEN h ELSE WsRunStart(remainder, h)

\* a rewrite that adds the scale as a new last field whatever the fields
NewParts_AlwaysAppend(parts, text) == Append(parts, " " \o text)

\* the field list after the rewrite of lines 145-154
NewParts(parts, text) ==
    IF Len(parts) = 2
    THEN IF Contains(Strip(parts[2]), "disable")
         THEN << "", " preferred", " auto", " " \o text >>
         ELSE parts \o << " auto", " " \o text >>
    ELSE IF Len(parts) = 3 THEN Append(parts, " " \o text)
    ELSE IF Len(parts) >= 4 THEN [parts EXCEPT ![4] = " " \o text]
    ELSE parts

\* v1_replacer on the match that starts at p
v1_replacer(t, p, name, text) ==
    LET g2 == V1Name(t, p)
        g3 == V1Comma(t, p)
        e == LineEnd(t, g3)
        remainder == SubSeq(t, g3, e - 1)
        cs == CommentStart(remainder)
        comment == SubSeq(remainder, cs, Len(remainder))
        fields == SubSeq(remainder, 1, cs - 1)
    IN  IF Strip(SubSeq(t, g2, g3 - 1)) = name
        THEN SubSeq(t, p, g3 - 1) \o Join(NewParts(Split(fields, 1), text)) \o comment
        ELSE SubSeq(t, p, e - 1)

\* re.sub(pattern, v1_replacer, config_text, flags=re.MULTILINE), from i
RECURSIVE SubV1(_, _, _, _)
SubV1(t, i, name, text) ==
    LET m == FirstMatch(t, i, { j \in i..Len(t) : V1At(t, j) })
    IN  IF m > Len(t) THEN SubSeq(t, i, Len(t))
        ELSE SubSeq(t, i, m - 1) \o v1_replacer(t, m, name, text)
               \o SubV1(t, LineEnd(t, V1Comma(t, m)), name, text)

\* v1_replacer never setting `found`
FoundV1_Never(t, i, name) == FALSE

\* `found` after step 2
RECURSIVE FoundV1(_, _, _)
FoundV1(t, i, name) ==
    LET m == FirstMatch(t, i, { j \in i..Len(t) : V1At(t, j) })
    IN  IF m > Len(t) THEN FALSE
        ELSE \/ Strip(SubSeq(t, V1Name(t, m), V1Comma(t, m) - 1)) = name
             \/ FoundV1(t, LineEnd(t, V1Comma(t, m)), name)

----------------------------------------------------------------------------
(* update_config_atomically, lines 111-164: the new content of the file *)

AppendedEntry(name, text) ==
    "\nmonitor = " \o name \o ", preferred, auto, " \o text \o "\n"

\* a patcher that goes through the monitor lines after a block has matched
PatchedText_NoPriority(config_text, monitor_name, scale) ==
    LET text == FormatG(scale)
        after_v2 == SubV2(config_text, 1, monitor_name, text)
    IN  IF FoundV2(config_text, 1, monitor_name)
             \/ FoundV1(after_v2, 1, monitor_name)
        THEN SubV1(after_v2, 1, monitor_name, text)
        ELSE SubV1(after_v2, 1, monitor_name, text)
               \o AppendedEntry(monitor_name, text)

PatchedText(config_text, monitor_name, scale) ==
    LET text == FormatG(scale)
        after_v2 == SubV2(config_text, 1, monitor_name, text)
    IN  IF FoundV2(config_text, 1, monitor_name) THEN after_v2
        ELSE IF FoundV1(after_v2, 1, monitor_name)
             THEN SubV1(after_v2, 1, monitor_name, text)
             ELSE SubV1(after_v2, 1, monitor_name, text)
                    \o AppendedEntry(monitor_name, text)

\* `found` at line 162
Found(config_text, monitor_name) ==
    \/ FoundV2(config_text, 1, monitor_name)
    \/ FoundV1(SubV2(config_text, 1, monitor_name, ""), 1, monitor_name)

\* open(real_path, "r").read(): text mode translates "\r\n" and "\r" to "\n"
RECURSIVE ReadText(_, _)
ReadText(bytes, i) ==
    LET r == Find(bytes, i, "\r")
    IN  IF r > Len(bytes) THEN SubSeq(bytes, i, Len(bytes))
        ELSE SubSeq(bytes, i, r - 1) \o "\n"
               \o ReadText(bytes, IF Ch(bytes, r + 1) = "\n" THEN r + 2 ELSE r + 1)

\* what update_config_atomically writes for a file holding `bytes`
NewContent(bytes, monitor_name, scale) ==
    PatchedText(ReadText(bytes, 1), monitor_name, scale)

----------------------------------------------------------------------------
(* Inputs of the resolver *)

\* physical sizes a monitor may report, the first NumSizes of which are used
PhysSizes ==
    << <<1920, 1080>>, <<300, 200>>, <<704, 396>>, <<2880, 1800>>,
       <<1366, 768>>, <<400, 200>>, <<2560, 1440>>, <<639, 360>>,
       <<3840, 2160>>, <<1280, 720>> >>
NumSizes == 6

\* a current scale lies up to MaxOffset ticks from a step: within the epsilon
\* (under 10 ticks), exactly on it, and beyond it
MaxOffset == 11
Offsets == (0 - MaxOffset)..MaxOffset

Sizes == { PhysSizes[i] : i \in 1..(IF NumSizes < Len(PhysSizes)
                                     THEN NumSizes ELSE Len(PhysSizes)) }
Currents == { Ticks(SCALE_STEPS[i]) + o : i \in 1..Len(SCALE_STEPS), o \in Offsets }
Directions == { "+", "-" }

----------------------------------------------------------------------------
(* The resolver applied to arbitrary inputs, and iterated *)

\* the parts of the state a specification does not use
IdleScale ==
    /\ sc_size = <<0, 0>>
    /\ sc_cur = 0
    /\ sc_dir = "+"
    /\ sc_ret = None
    /\ sc_trail = <<>>
    /\ sc_mode = "idle"
IdlePatch ==
    /\ pt_exists = FALSE
    /\ pt_file = ""
    /\ pt_prev = ""
    /\ pt_orig = ""
    /\ pt_calls = <<>>

\* a file of the directory: absent, or present with content and mode bits
NoFile == [exists |-> FALSE, data |-> "", mode |-> ""]
File(data, mode) == [exists |-> TRUE, data |-> data, mode |-> mode]

IdleMain ==
    /\ argv = <<>>
    /\ env_override = ""
    /\ fs0 = NoFile
    /\ pc = "idle"
    /\ exit_code = RUNNING
    /\ mon_name = ""
    /\ phys_size = <<0, 0>>
    /\ current_scale = 0
    /\ new_scale = None
    /\ polls = 0
    /\ actual_scale = 0
    /\ up_call = 0
    /\ up_scale = 0
    /\ up_old = ""
    /\ up_new = ""
    /\ up_failed = ""
    /\ fs = [conf |-> NoFile, tmp |-> NoFile]
    /\ wm_monitors = <<>>
    /\ wm_pending = FALSE
    /\ conf_scale = 0
    /\ notes = <<>>
    /\ delivered = <<>>
    /\ log = <<>>
    /\ reloads = 0
    /\ queries = 0
    /\ rd_obs = <<>>
    /\ rd_pre = ""
    /\ rd_post = ""

\* no pair of concurrent invocations
IdleRace ==
    /\ rc_fs = [conf |-> NoFile, tmp1 |-> NoFile, tmp2 |-> NoFile]
    /\ rc_orig = NoFile
    /\ rc_args = <<>>
    /\ rc_pc = <<>>
    /\ rc_read = <<>>
    /\ rc_text = <<>>
    /\ rc_renamed = <<>>

\* no widget
IdleWidget ==
    /\ w_class = ""
    /\ w_destroyed = FALSE
    /\ w_busy = <<>>
    /\ w_source = <<>>
    /\ w_timers = {}
    /\ w_threads = <<>>
    /\ w_idle = <<>>
    /\ w_shown = <<>>
    /\ w_ticks = <<>>
    /\ w_last = <<>>
    /\ w_dropped = 0

\* no search
IdleSearch ==
    /\ s_entry = ""
    /\ s_source = None
    /\ s_timers = {}
    /\ s_next_id = 0
    /\ s_view = ""
    /\ s_title = ""
    /\ s_executed = <<>>
    /\ s_burst = 0
    /\ s_changes = 0
    /\ s_shutdown = FALSE

IdleGui == IdleWidget /\ IdleSearch

InitScale ==
    /\ IdlePatch
    /\ IdleMain
    /\ IdleRace
    /\ IdleGui
    /\ sc_size \in Sizes
    /\ sc_cur \in Currents
    /\ sc_dir \in Directions
    /\ sc_ret = None
    /\ sc_trail = <<>>
    /\ sc_mode = "input"

\* one call on the drawn current scale and direction
Resolve ==
    /\ sc_mode = "input"
    /\ sc_ret' = compute_next_scale(sc_cur, sc_dir, sc_size[1], sc_size[2])
    /\ sc_mode' = "call"
    /\ UNCHANGED <<sc_size, sc_cur, sc_dir, sc_trail>>

\* start an iteration at the minimum ('+') or maximum ('-') admissible scale
WalkStart ==
    /\ sc_mode = "input"
    /\ LET v == valid_scales(sc_size[1], sc_size[2])
           s0 == IF sc_dir = "+" THEN ListMin(v) ELSE ListMax(v)
       IN  /\ sc_cur' = Ticks(s0)
           /\ sc_ret' = compute_next_scale(Ticks(s0), sc_dir, sc_size[1], sc_size[2])
           /\ sc_trail' = << s0 >>
    /\ sc_mode' = "walk"
    /\ UNCHANGED <<sc_size, sc_dir>>

\* feed the last result back as the current scale
WalkStep ==
    /\ sc_mode = "walk"
    /\ sc_ret # None
    /\ sc_cur' = Ticks(sc_ret)
    /\ sc_ret' = compute_next_scale(Ticks(sc_ret), sc_dir, sc_size[1], sc_size[2])
    /\ sc_trail' = Append(sc_trail, sc_ret)
    /\ UNCHANGED <<sc_size, sc_dir, sc_mode>>

NextScale ==
    \/ Resolve /\ UNCHANGED <<patchVars, mainVars, raceVars, guiVars>>
    \/ WalkStart /\ UNCHANGED <<patchVars, mainVars, raceVars, guiVars>>
    \/ WalkStep /\ UNCHANGED <<patchVars, mainVars, raceVars, guiVars>>

SpecScale == InitScale /\ [][NextScale]_vars

----------------------------------------------------------------------------
(* Inputs of the patcher: config files with an entry, in one of the forms   *)
(* below or none, for each of two monitors                                   *)

MONITOR_A == "DP-1"
MONITOR_B == "eDP-1"
MonitorNames == { MONITOR_A, MONITOR_B }

\* the entry of monitor `name` in form f; the first NumForms forms are used.
\* Form 10 is two entries for the same name, form 11 a block whose scale line
\* ends in a comment, form 12 a block and a line for the same name
Entry(name, f) ==
    CASE f = 1 -> "monitor = " \o name \o ", 1920x1080@60, 0x0, 1.25  # main\n"
      [] f = 2 -> "monitor=" \o name \o ",preferred,auto\n"
      [] f = 3 -> "monitor = " \o name \o ", preferred\n"
      [] f = 4 -> "monitor = " \o name \o ", disable\n"
      [] f = 5 -> "  monitor = " \o name \o ", 2560x1440, 1920x0, 1, transform, 1 # rot\n"
      [] f = 6 -> "monitorv2 {\n    output = " \o name
                    \o "\n    mode = 1920x1080\n    scale = 1.25\n}\n"
      [] f = 7 -> "monitorv2 {\n  output = " \o name \o "\n  position = 0x0\n}\n"
      [] f = 8 -> ""
      [] f = 9 -> "monitor = " \o name \o ", preferred, auto, 1\r\n"
      [] f = 10 -> "monitor = " \o name \o ", preferred, auto, 1\n"
                     \o "monitor = " \o name \o ", 1920x1080, 0x0, 2\n"
      [] f = 11 -> "monitorv2 {\n  output = " \o name
                     \o "\n  scale = 1.5 # hidpi\n}\n"
      [] f = 12 -> "monitorv2 {\n  output = " \o name \o "\n  scale = 1\n}\n"
                     \o "monitor = " \o name \o ", preferred, auto, 2\n"
      [] OTHER -> "monitor\t=\t" \o name \o ",\tpreferred,\tauto,\t2\n"
NumForms == 12
Forms == 1..NumForms

ConfigText(fa, fb) ==
    "# monitors\n" \o Entry(MONITOR_A, fa) \o "\n# second\n" \o Entry(MONITOR_B, fb)
Configs == { ConfigText(fa, fb) : fa \in Forms, fb \in Forms }

\* scales, in ticks, a call may be given: steps, and a scale the window
\* manager reports that is no step; the first NumPatchScales are used
PatchScaleList == << 15000000, 10625000, 13333330, 20000000 >>
NumPatchScales == 2
PatchScales ==
    { PatchScaleList[i] : i \in 1..(IF NumPatchScales < Len(PatchScaleList)
                                     THEN NumPatchScales ELSE Len(PatchScaleList)) }
\* calls of update_config_atomically in a row
MaxCalls == 2

----------------------------------------------------------------------------
(* update_config_atomically called repeatedly, every step of it succeeding *)

InitPatch ==
    /\ IdleScale
    /\ IdleMain
    /\ IdleRace
    /\ IdleGui
    /\ pt_exists \in BOOLEAN
    /\ pt_file \in (IF pt_exists THEN Configs ELSE { "" })
    /\ pt_prev = pt_file
    /\ pt_orig = pt_file
    /\ pt_calls = <<>>

\* lines 103-177: touch when missing, read, patch, write, replace
Patch ==
    \E name \in MonitorNames, scale \in PatchScales :
        /\ Len(pt_calls) < MaxCalls
        /\ pt_prev' = pt_file
        /\ pt_file' = NewContent(pt_file, name, scale)
        /\ pt_exists' = TRUE
        /\ pt_calls' = Append(pt_calls, <<name, scale>>)
        /\ UNCHANGED pt_orig

NextPatch == Patch /\ UNCHANGED <<scaleVars, mainVars, raceVars, guiVars>>

SpecPatch == InitPatch /\ [][NextPatch]_vars

----------------------------------------------------------------------------
(* get_active_monitor *)

Monitor(name, width, height, scale, focused) ==
    [name |-> name, width |-> width, height |-> height, scale |-> scale,
     focused |-> focused]

\* how `hyprctl -j monitors` may answer: with the monitors, with a non-zero
\* exit, not at all (no binary), with text that is no JSON, or with JSON
\* whose entries lack the keys read at lines 68-75
QueryOutcomes == { "ok", "ipc_error", "no_binary", "bad_json", "bad_shape" }

\* next(m for m in monitors if test): the first of the indices that pass
\* the test, 0 when there is none
FirstIndex(hits) ==
    IF hits = {} THEN 0 ELSE CHOOSE i \in hits : \A k \in hits : i <= k

Fatal(msg) == [kind |-> "fatal", msg |-> msg, target |-> 0]
\* a selection that always takes monitors[0]
Target_First(i) == [kind |-> "ok", msg |-> "", target |-> 1]

Target(i) == [kind |-> "ok", msg |-> "", target |-> i]

\* the monitor selected (an index of `monitors`), the message of log_err
\* before sys.exit(1), or an exception that nothing catches
get_active_monitor(outcome, monitors, target_override) ==
    LET named == FirstIndex({ i \in 1..Len(monitors) :
                                monitors[i].name = target_override })
        focused == FirstIndex({ i \in 1..Len(monitors) : monitors[i].focused })
    IN  CASE outcome = "ipc_error" -> Fatal("Cannot communicate with Hyprland IPC.")
          [] outcome = "no_binary" -> Fatal("'hyprctl' binary not found in PATH.")
          [] outcome = "bad_json" -> Fatal("Invalid JSON returned by Hyprland.")
          [] outcome = "bad_shape" -> [kind |-> "crash", msg |-> "KeyError", target |-> 0]
          [] OTHER ->
               IF monitors = <<>> THEN Fatal("No active monitors found.")
               ELSE IF target_override # ""
               THEN IF named = 0
                    THEN Fatal("Target monitor '" \o target_override \o "' not found.")
                    ELSE Target(named)
               ELSE Target(IF focused = 0 THEN 1 ELSE focused)

----------------------------------------------------------------------------
(* main and update_config_atomically, one step at a time *)

LogLine(tag, msg) == [tag |-> tag, msg |-> msg]
Note(title, body, urgency) == [title |-> title, body |-> body, urgency |-> urgency]

\* an argument check that only counts the arguments
ValidArgv_AnyOne(args) == Len(args) = 1

\* len(sys.argv) != 2 or sys.argv[1] not in ("+", "-"), negated
ValidArgv(args) == Len(args) = 1 /\ args[1] \in { "+", "-" }

\* an exit that loses the status
Exit_Success(code) == pc' = "exited" /\ exit_code' = 0

\* sys.exit(code), an uncaught exception (status 1), or main returning (0)
Exit(code) == pc' = "exited" /\ exit_code' = code

\* a notify without the except clause
notify_raises_Uncaught(present) == ~ present

\* whether notify() raises: with notify-send missing subprocess.run raises
\* FileNotFoundError, which lines 45-46 swallow
notify_raises(present) == FALSE

\* notify(): notify-send shows the notification or is missing; the lines
\* written to stderr just before the call; then main goes on to `next`
\* with exit status `code`
Notify(note, lines, next, code) ==
    \E present \in BOOLEAN :
        /\ notes' = Append(notes, note)
        /\ delivered' = IF present THEN Append(delivered, note) ELSE delivered
        /\ IF notify_raises(present)
           THEN /\ log' = Append(log \o lines, LogLine("TRACEBACK", "FileNotFoundError"))
                /\ Exit(1)
           ELSE /\ log' = log \o lines
                /\ pc' = next
                /\ exit_code' = code

\* a comparison with no tolerance
Differs_Exact(a, b) == a # b

\* a comparison that never sees a difference
Differs_Never(a, b) == FALSE

\* abs(a - b) > 0.000001, in ticks
Differs(a, b) == a - b > EPSILON \/ b - a > EPSILON

\* round(phys / new_scale) for an admissible step
RoundDiv(dim, s) == (2 * dim * STEP_UNIT + s) \div (2 * s)

\* lines 180-185
Start ==
    /\ pc = "start"
    /\ IF ValidArgv(argv)
       THEN pc' = "query" /\ UNCHANGED <<exit_code, log>>
       ELSE /\ log' = Append(log, LogLine("USAGE", "Usage: adjust_scale.py [+|-]"))
            /\ Exit(1)
    /\ UNCHANGED <<inputVars, localVars, upVars, fs, wmVars, conf_scale,
                   notes, delivered, reloads, queries, rdVars>>

\* line 187: the first get_active_monitor
Query ==
    /\ pc = "query"
    /\ queries' = queries + 1
    /\ \E outcome \in QueryOutcomes :
         LET r == get_active_monitor(outcome, wm_monitors, env_override)
         IN  CASE r.kind = "ok" ->
                    /\ mon_name' = wm_monitors[r.target].name
                    /\ phys_size' = << wm_monitors[r.target].width,
                                       wm_monitors[r.target].height >>
                    /\ current_scale' = wm_monitors[r.target].scale
                    /\ pc' = "resolve"
                    /\ UNCHANGED <<exit_code, log>>
               [] r.kind = "fatal" ->
                    /\ log' = Append(log, LogLine("ERROR", r.msg))
                    /\ Exit(1)
                    /\ UNCHANGED <<mon_name, phys_size, current_scale>>
               [] OTHER ->
                    /\ log' = Append(log, LogLine("TRACEBACK", r.msg))
                    /\ Exit(1)
                    /\ UNCHANGED <<mon_name, phys_size, current_scale>>
    /\ UNCHANGED <<inputVars, new_scale, polls, actual_scale, upVars, fs,
                   wmVars, conf_scale, notes, delivered, reloads, rdVars>>

\* lines 188-190 and 196: the resolver, and the first call of
\* update_config_atomically when there is a step to take
Resolve_main ==
    /\ pc = "resolve"
    /\ new_scale' = compute_next_scale(current_scale, argv[1], phys_size[1], phys_size[2])
    /\ IF new_scale' = None
       THEN pc' = "limit" /\ UNCHANGED <<up_call, up_scale>>
       ELSE pc' = "up_touch" /\ up_call' = 1 /\ up_scale' = Ticks(new_scale')
    /\ UNCHANGED <<inputVars, exit_code, mon_name, phys_size, current_scale,
                   polls, actual_scale, up_old, up_new, up_failed, fs, wmVars,
                   conf_scale, outVars, rdVars>>

\* main without the return of line 193
LimitNext_FallThrough == "up_touch"

\* where main goes after the "Limit Reached" notification: it returns
LimitNext == "exited"

\* lines 191-193
Limit ==
    /\ pc = "limit"
    /\ Notify(Note("Monitor Scale", "Limit Reached: " \o FormatG(current_scale), "normal"),
              << LogLine("WARN", "Limit reached: " \o FormatG(current_scale)) >>,
              LimitNext,
              IF LimitNext = "exited" THEN 0 ELSE exit_code)
    /\ UNCHANGED <<inputVars, localVars, upVars, fs, wmVars, conf_scale,
                   reloads, queries, rdVars>>

\* the new content written over the config file itself
StagingPath_InPlace == "conf"

\* the path mkstemp creates the new content under: a file of its own in the
\* directory of the config file
StagingPath == "tmp"

\* lines 103-105: create the file when it does not exist
UpTouch ==
    /\ pc = "up_touch"
    /\ fs' = IF fs.conf.exists THEN fs ELSE [fs EXCEPT !.conf = File("", "644")]
    /\ pc' = "up_read"
    /\ UNCHANGED <<inputVars, exit_code, localVars, upVars, wmVars, conf_scale,
                   outVars, rdVars>>

\* lines 107-164: read the file and compute config_text
UpRead ==
    /\ pc = "up_read"
    /\ up_old' = fs.conf.data
    /\ up_new' = NewContent(fs.conf.data, mon_name, up_scale)
    /\ up_failed' = ""
    /\ log' = IF Found(ReadText(fs.conf.data, 1), mon_name) THEN log
              ELSE Append(log, LogLine("INFO", "Appending new entry for: " \o mon_name))
    /\ pc' = "up_mkstemp"
    /\ UNCHANGED <<inputVars, exit_code, localVars, up_call, up_scale, fs,
                   wmVars, conf_scale, notes, delivered, reloads, queries, rdVars>>

\* line 167: tempfile.mkstemp, outside the try: an OSError is not caught
UpMkstemp ==
    /\ pc = "up_mkstemp"
    /\ \E ok \in BOOLEAN :
         IF ok
         THEN /\ fs' = [fs EXCEPT ![StagingPath] = File("", "600")]
              /\ pc' = "up_write"
              /\ UNCHANGED <<exit_code, log, up_failed>>
         ELSE /\ up_failed' = "mkstemp"
              /\ log' = Append(log, LogLine("TRACEBACK", "OSError"))
              /\ Exit(1)
              /\ UNCHANGED fs
    /\ UNCHANGED <<inputVars, localVars, up_call, up_scale, up_old, up_new,
                   wmVars, conf_scale, notes, delivered, reloads, queries, rdVars>>

\* a step of the try block fails: to the except clause
UpFail(step) ==
    /\ up_failed' = step
    /\ pc' = "up_cleanup"

\* lines 169-170: the first part of config_text reaches the temp file
UpWrite ==
    /\ pc = "up_write"
    /\ \E ok \in BOOLEAN :
         IF ok
         THEN /\ fs' = [fs EXCEPT ![StagingPath].data =
                                     SubSeq(up_new, 1, Len(up_new) \div 2)]
              /\ pc' = "up_flush"
              /\ UNCHANGED up_failed
         ELSE UpFail("write") /\ UNCHANGED fs
    /\ UNCHANGED <<inputVars, exit_code, localVars, up_call, up_scale, up_old,
                   up_new, wmVars, conf_scale, outVars, rdVars>>

\* lines 169-170: the rest of it does, and the file is closed
UpFlush ==
    /\ pc = "up_flush"
    /\ \E ok \in BOOLEAN :
         IF ok
         THEN /\ fs' = [fs EXCEPT ![StagingPath].data = up_new]
              /\ pc' = "up_chmod"
              /\ UNCHANGED up_failed
         ELSE UpFail("write") /\ UNCHANGED fs
    /\ UNCHANGED <<inputVars, exit_code, localVars, up_call, up_scale, up_old,
                   up_new, wmVars, conf_scale, outVars, rdVars>>

\* line 172: os.chmod(temp_path, real_path.stat().st_mode)
UpChmod ==
    /\ pc = "up_chmod"
    /\ \E ok \in BOOLEAN :
         IF ok
         THEN /\ fs' = [fs EXCEPT ![StagingPath].mode = fs.conf.mode]
              /\ pc' = "up_replace"
              /\ UNCHANGED up_failed
         ELSE UpFail("chmod") /\ UNCHANGED fs
    /\ UNCHANGED <<inputVars, exit_code, localVars, up_call, up_scale, up_old,
                   up_new, wmVars, conf_scale, outVars, rdVars>>

\* os.replace(src, "conf"): the directory after the rename
Replaced(dir, src) ==
    IF src = "conf" THEN dir
    ELSE [dir EXCEPT !.conf = dir[src], ![src] = NoFile]

\* line 173: os.replace(temp_path, real_path)
UpReplace ==
    /\ pc = "up_replace"
    /\ \E ok \in BOOLEAN :
         IF ok
         THEN /\ fs' = Replaced(fs, StagingPath)
              /\ pc' = "up_return"
              /\ UNCHANGED up_failed
         ELSE UpFail("replace") /\ UNCHANGED fs
    /\ UNCHANGED <<inputVars, exit_code, localVars, up_call, up_scale, up_old,
                   up_new, wmVars, conf_scale, outVars, rdVars>>

\* an except clause that leaves the temp file behind
Removed_Keep(dir, path) == dir

\* os.remove(temp_path): the directory after the except clause
Removed(dir, path) == [dir EXCEPT ![path] = NoFile]

\* lines 174-177: remove the temp file, log, exit
UpCleanup ==
    /\ pc = "up_cleanup"
    /\ fs' = Removed(fs, StagingPath)
    /\ log' = Append(log, LogLine("ERROR", "Atomic write failed: " \o up_failed))
    /\ Exit(1)
    /\ UNCHANGED <<inputVars, localVars, upVars, wmVars, conf_scale, notes,
                   delivered, reloads, queries, rdVars>>

\* update_config_atomically returns: to line 198 or to line 215
UpReturn ==
    /\ pc = "up_return"
    /\ pc' = IF up_call = 1 THEN "reload" ELSE "notify_adjusted"
    /\ UNCHANGED <<inputVars, exit_code, localVars, upVars, fs, wmVars,
                   conf_scale, outVars, rdVars>>

\* how `hyprctl reload` may end: done, a non-zero exit, or no binary
ReloadOutcomes == { "ok", "failed", "no_binary" }

\* lines 198-202: the reload trigger, whose exit status is not looked at
Reload ==
    /\ pc = "reload"
    /\ \E outcome \in ReloadOutcomes :
         IF outcome = "no_binary"
         THEN /\ log' = Append(Append(log,
                          LogLine("INFO", "Applying scale " \o FormatG(Ticks(new_scale))
                                            \o " via hyprctl reload")),
                          LogLine("TRACEBACK", "FileNotFoundError"))
              /\ Exit(1)
              /\ UNCHANGED <<reloads, wm_pending, conf_scale, actual_scale>>
         ELSE /\ log' = Append(log,
                          LogLine("INFO", "Applying scale " \o FormatG(Ticks(new_scale))
                                            \o " via hyprctl reload"))
              /\ reloads' = reloads + 1
              /\ wm_pending' = (wm_pending \/ outcome = "ok")
              /\ conf_scale' = IF outcome = "ok" THEN up_scale ELSE conf_scale
              /\ actual_scale' = current_scale
              /\ pc' = "poll"
              /\ UNCHANGED exit_code
    /\ UNCHANGED <<inputVars, mon_name, phys_size, current_scale, new_scale,
                   polls, upVars, fs, wm_monitors, notes, delivered,
                   queries, rdVars>>

\* lines 203-209: one iteration of the verification loop
Poll ==
    /\ pc = "poll"
    /\ queries' = queries + 1
    /\ \E outcome \in QueryOutcomes :
         LET r == get_active_monitor(outcome, wm_monitors, mon_name)
         IN  CASE r.kind = "ok" ->
                    /\ polls' = polls + 1
                    /\ actual_scale' = wm_monitors[r.target].scale
                    /\ pc' = IF Differs(wm_monitors[r.target].scale, current_scale)
                                  \/ polls + 1 = MAX_POLLS
                             THEN "verify" ELSE "poll"
                    /\ UNCHANGED <<exit_code, log>>
               [] r.kind = "fatal" ->
                    /\ log' = Append(log, LogLine("ERROR", r.msg))
                    /\ Exit(1)
                    /\ UNCHANGED <<polls, actual_scale>>
               [] OTHER ->
                    /\ log' = Append(log, LogLine("TRACEBACK", r.msg))
                    /\ Exit(1)
                    /\ UNCHANGED <<polls, actual_scale>>
    /\ UNCHANGED <<inputVars, mon_name, phys_size, current_scale, new_scale,
                   upVars, fs, wmVars, conf_scale, notes, delivered, reloads,
                   rdVars>>

\* lines 212-218: compare, then the second patch or the notification
Verify ==
    /\ pc = "verify"
    /\ IF Differs(actual_scale, Ticks(new_scale))
       THEN /\ log' = Append(log, LogLine("WARN",
                        "Hyprland override detected: requested "
                          \o FormatG(Ticks(new_scale)) \o ", active is "
                          \o FormatG(actual_scale)))
            /\ up_call' = 2
            /\ up_scale' = actual_scale
            /\ pc' = "up_touch"
            /\ UNCHANGED <<exit_code, notes, delivered>>
       ELSE /\ Notify(Note("Display Scale: " \o FormatG(Ticks(new_scale)),
                           "Monitor: " \o mon_name \o "\nLogical: "
                             \o Decimal(RoundDiv(phys_size[1], new_scale)) \o "x"
                             \o Decimal(RoundDiv(phys_size[2], new_scale)),
                           "low"),
                      <<>>, "exited", 0)
            /\ UNCHANGED <<up_call, up_scale>>
    /\ UNCHANGED <<inputVars, localVars, up_old, up_new, up_failed, fs, wmVars,
                   conf_scale, reloads, queries, rdVars>>

\* line 215
NotifyAdjusted ==
    /\ pc = "notify_adjusted"
    /\ Notify(Note("Scale Adjusted",
                   "Requested " \o FormatG(Ticks(new_scale)) \o ", got "
                     \o FormatG(actual_scale),
                   "low"),
              <<>>, "exited", 0)
    /\ UNCHANGED <<inputVars, localVars, upVars, fs, wmVars, conf_scale,
                   reloads, queries, rdVars>>

----------------------------------------------------------------------------
(* The environment of a run: the compositor and a reader of the file *)

\* what the compositor may make of a reloaded scale: take it, take it up to
\* a difference below the tolerance of lines 206 and 212, clamp it to 1, or
\* settle on a scale of its own with more digits than a step has
ONE == Ticks(10000)
NEAR == 5
OWN_SCALE == 13333333
WMAnswers(requested) == { requested, requested + NEAR, ONE, OWN_SCALE }

\* Hyprland, having read the config at `hyprctl reload`, changes the scale
\* of the monitor, at any later time
WMApply ==
    /\ wm_pending
    /\ \E s \in WMAnswers(conf_scale) :
         wm_monitors' = [ i \in 1..Len(wm_monitors) |->
                            IF wm_monitors[i].name = mon_name
                            THEN [wm_monitors[i] EXCEPT !.scale = s]
                            ELSE wm_monitors[i] ]
    /\ wm_pending' = FALSE
    /\ UNCHANGED <<inputVars, pc, exit_code, localVars, upVars, fs, conf_scale,
                   outVars, rdVars>>

\* the steps between the read of the file and the return of
\* update_config_atomically
WritePcs == { "up_mkstemp", "up_write", "up_flush", "up_chmod", "up_replace",
              "up_cleanup", "up_return" }

\* another process opens the config path and reads it whole
ReaderOpen ==
    /\ pc \in WritePcs
    /\ rd_obs' = << fs.conf >>
    /\ rd_pre' = up_old
    /\ rd_post' = up_new
    /\ UNCHANGED <<inputVars, pc, exit_code, localVars, upVars, fs, wmVars,
                   conf_scale, outVars>>

----------------------------------------------------------------------------
(* Runs of the script *)

MONITOR_ABSENT == "HDMI-A-9"

ArgvList == << <<"+">>, <<"-">>, <<>>, <<"x">>, <<"+", "-">> >>
Argvs == { ArgvList[i] : i \in 1..Len(ArgvList) }
Overrides == { "", MONITOR_B, MONITOR_ABSENT }

StartScaleList == << 10000000, 30000000, 5000000, 12500000, 20000000 >>
NumStartScales == 4
StartScales == { StartScaleList[i] :
                   i \in 1..(IF NumStartScales < Len(StartScaleList)
                             THEN NumStartScales ELSE Len(StartScaleList)) }

MonitorLists ==
    { <<>> }
    \cup { << Monitor(MONITOR_A, 1920, 1080, s, TRUE),
              Monitor(MONITOR_B, 2560, 1440, ONE, FALSE) >> : s \in StartScales }
    \cup { << Monitor(MONITOR_A, 1920, 1080, ONE, FALSE),
              Monitor(MONITOR_B, 2560, 1440, s, TRUE) >> : s \in StartScales }
    \cup { << Monitor(MONITOR_A, 1920, 1080, s, FALSE),
              Monitor(MONITOR_B, 2560, 1440, ONE, FALSE) >> : s \in StartScales }

MainConfigList ==
    << File(ConfigText(1, 1), "644"), File(ConfigText(6, 8), "600"),
       File(ConfigText(9, 2), "644"), File(ConfigText(7, 5), "644") >>
NumMainConfigs == 2
MainConfigs ==
    { NoFile } \cup { MainConfigList[i] :
                        i \in 1..(IF NumMainConfigs < Len(MainConfigList)
                                  THEN NumMainConfigs ELSE Len(MainConfigList)) }

Init ==
    /\ IdleScale
    /\ IdlePatch
    /\ IdleRace
    /\ IdleGui
    /\ argv \in Argvs
    /\ env_override \in Overrides
    /\ fs0 \in MainConfigs
    /\ fs = [conf |-> fs0, tmp |-> NoFile]
    /\ wm_monitors \in MonitorLists
    /\ wm_pending = FALSE
    /\ pc = "start"
    /\ exit_code = RUNNING
    /\ mon_name = ""
    /\ phys_size = <<0, 0>>
    /\ current_scale = 0
    /\ new_scale = None
    /\ polls = 0
    /\ actual_scale = 0
    /\ up_call = 0
    /\ up_scale = 0
    /\ up_old = ""
    /\ up_new = ""
    /\ up_failed = ""
    /\ conf_scale = 0
    /\ notes = <<>>
    /\ delivered = <<>>
    /\ log = <<>>
    /\ reloads = 0
    /\ queries = 0
    /\ rd_obs = <<>>
    /\ rd_pre = ""
    /\ rd_post = ""

\* a run of the script leaves the other developments alone
OthersIdle == UNCHANGED <<scaleVars, patchVars, raceVars, guiVars>>

Next ==
    \/ Start /\ OthersIdle
    \/ Query /\ OthersIdle
    \/ Resolve_main /\ OthersIdle
    \/ Limit /\ OthersIdle
    \/ UpTouch /\ OthersIdle
    \/ UpRead /\ OthersIdle
    \/ UpMkstemp /\ OthersIdle
    \/ UpWrite /\ OthersIdle
    \/ UpFlush /\ OthersIdle
    \/ UpChmod /\ OthersIdle
    \/ UpReplace /\ OthersIdle
    \/ UpCleanup /\ OthersIdle
    \/ UpReturn /\ OthersIdle
    \/ Reload /\ OthersIdle
    \/ Poll /\ OthersIdle
    \/ Verify /\ OthersIdle
    \/ NotifyAdjusted /\ OthersIdle
    \/ WMApply /\ OthersIdle
    \/ ReaderOpen /\ OthersIdle

Spec == Init /\ [][Next]_vars

----------------------------------------------------------------------------
(* Two invocations of update_config_atomically on the same file at once *)

Invocations == { 1, 2 }

\* a temp file of the first invocation under the name of the second's
TempPath_Shared(i) == "tmp1"

\* tempfile.mkstemp gives each invocation a name no other file has
TempPath(i) == IF i = 1 THEN "tmp1" ELSE "tmp2"

RaceConfigList ==
    << File(ConfigText(1, 2), "644"), File(ConfigText(6, 8), "600"),
       File(ConfigText(7, 3), "644") >>
NumRaceConfigs == 2
RaceConfigs ==
    { NoFile } \cup { RaceConfigList[i] :
                        i \in 1..(IF NumRaceConfigs < Len(RaceConfigList)
                                  THEN NumRaceConfigs ELSE Len(RaceConfigList)) }

InitRace ==
    /\ IdleScale
    /\ IdlePatch
    /\ IdleMain
    /\ IdleGui
    /\ rc_orig \in RaceConfigs
    /\ rc_fs = [conf |-> rc_orig, tmp1 |-> NoFile, tmp2 |-> NoFile]
    /\ rc_args \in [Invocations -> MonitorNames \X PatchScales]
    /\ rc_pc = [i \in Invocations |-> "up_touch"]
    /\ rc_read = [i \in Invocations |-> ""]
    /\ rc_text = [i \in Invocations |-> ""]
    /\ rc_renamed = <<>>

\* invocation i goes from one step to another
RcGoto(i, from, to) ==
    /\ rc_pc[i] = from
    /\ rc_pc' = [rc_pc EXCEPT ![i] = to]

\* lines 103-105
RcTouch(i) ==
    /\ RcGoto(i, "up_touch", "up_read")
    /\ rc_fs' = IF rc_fs.conf.exists THEN rc_fs
                ELSE [rc_fs EXCEPT !.conf = File("", "644")]
    /\ UNCHANGED <<rc_orig, rc_args, rc_read, rc_text, rc_renamed>>

\* lines 107-164
RcRead(i) ==
    /\ RcGoto(i, "up_read", "up_mkstemp")
    /\ rc_read' = [rc_read EXCEPT ![i] = rc_fs.conf.data]
    /\ rc_text' = [rc_text EXCEPT ![i] =
                      NewContent(rc_fs.conf.data, rc_args[i][1], rc_args[i][2])]
    /\ UNCHANGED <<rc_fs, rc_orig, rc_args, rc_renamed>>

\* line 167, or the uncaught OSError
RcMkstemp(i) ==
    /\ \E ok \in BOOLEAN :
         IF ok
         THEN /\ RcGoto(i, "up_mkstemp", "up_write")
              /\ rc_fs' = [rc_fs EXCEPT ![TempPath(i)] = File("", "600")]
         ELSE /\ RcGoto(i, "up_mkstemp", "exited")
              /\ UNCHANGED rc_fs
    /\ UNCHANGED <<rc_orig, rc_args, rc_read, rc_text, rc_renamed>>

\* lines 169-170: the first part of config_text
RcWrite(i) ==
    /\ \E ok \in BOOLEAN :
         IF ok
         THEN /\ RcGoto(i, "up_write", "up_flush")
              /\ rc_fs' = [rc_fs EXCEPT ![TempPath(i)].data =
                              SubSeq(rc_text[i], 1, Len(rc_text[i]) \div 2)]
         ELSE /\ RcGoto(i, "up_write", "up_cleanup")
              /\ UNCHANGED rc_fs
    /\ UNCHANGED <<rc_orig, rc_args, rc_read, rc_text, rc_renamed>>

\* lines 169-170: the rest of it
RcFlush(i) ==
    /\ \E ok \in BOOLEAN :
         IF ok
         THEN /\ RcGoto(i, "up_flush", "up_chmod")
              /\ rc_fs' = [rc_fs EXCEPT ![TempPath(i)].data = rc_text[i]]
         ELSE /\ RcGoto(i, "up_flush", "up_cleanup")
              /\ UNCHANGED rc_fs
    /\ UNCHANGED <<rc_orig, rc_args, rc_read, rc_text, rc_renamed>>

\* line 172
RcChmod(i) ==
    /\ \E ok \in BOOLEAN :
         IF ok
         THEN /\ RcGoto(i, "up_chmod", "up_replace")
              /\ rc_fs' = [rc_fs EXCEPT ![TempPath(i)].mode = rc_fs.conf.mode]
         ELSE /\ RcGoto(i, "up_chmod", "up_cleanup")
              /\ UNCHANGED rc_fs
    /\ UNCHANGED <<rc_orig, rc_args, rc_read, rc_text, rc_renamed>>

\* line 173
RcReplace(i) ==
    /\ \E ok \in BOOLEAN :
         IF ok
         THEN /\ RcGoto(i, "up_replace", "returned")
              /\ rc_fs' = Replaced(rc_fs, TempPath(i))
              /\ rc_renamed' = Append(rc_renamed, i)
         ELSE /\ RcGoto(i, "up_replace", "up_cleanup")
              /\ UNCHANGED <<rc_fs, rc_renamed>>
    /\ UNCHANGED <<rc_orig, rc_args, rc_read, rc_text>>

\* lines 174-177
RcCleanup(i) ==
    /\ RcGoto(i, "up_cleanup", "exited")
    /\ rc_fs' = Removed(rc_fs, TempPath(i))
    /\ UNCHANGED <<rc_orig, rc_args, rc_read, rc_text, rc_renamed>>

RaceOthersIdle == UNCHANGED <<scaleVars, patchVars, mainVars, guiVars>>

NextRace ==
    \/ \E i \in Invocations : RcTouch(i) /\ RaceOthersIdle
    \/ \E i \in Invocations : RcRead(i) /\ RaceOthersIdle
    \/ \E i \in Invocations : RcMkstemp(i) /\ RaceOthersIdle
    \/ \E i \in Invocations : RcWrite(i) /\ RaceOthersIdle
    \/ \E i \in Invocations : RcFlush(i) /\ RaceOthersIdle
    \/ \E i \in Invocations : RcChmod(i) /\ RaceOthersIdle
    \/ \E i \in Invocations : RcReplace(i) /\ RaceOthersIdle
    \/ \E i \in Invocations : RcCleanup(i) /\ RaceOthersIdle

SpecRace == InitRace /\ [][NextRace]_vars

----------------------------------------------------------------------------
(* lib/rows.py: a widget with polling loops.  Timer callbacks, idle         *)
(* callbacks and the destroy handler run on the main loop, one at a time;   *)
(* the workers are threads and advance between them                         *)

\* the loops: the icon fetch, the toggle-state monitor, the label value
\* update.  The busy flag of a loop is _is_icon_updating, _is_monitoring or
\* _is_val_updating; its timer source id is held in icon_source_id,
\* monitor_source_id or update_source_id
Loops == {"icon", "monitor", "value"}

Classes == {"ButtonRow", "ToggleRow", "LabelRow", "GridCard", "GridToggleCard"}

\* the loops a class can run
LoopsOf(class) ==
    CASE class = "ToggleRow" -> {"icon", "monitor"}
      [] class = "LabelRow" -> {"icon", "value"}
      [] class = "GridToggleCard" -> {"monitor"}
      [] OTHER -> {"icon"}

\* the source id fields the destroy handler of a class removes
RemovedByDestroy(class) ==
    CASE class = "ToggleRow" -> {"value", "icon", "monitor"}
      [] class = "GridCard" -> {"icon"}
      [] class = "GridToggleCard" -> {"monitor"}
      [] OTHER -> {"value", "icon"}

\* the id GLib.timeout_add_seconds returned for the timer of a loop
SourceId(loop) ==
    CASE loop = "icon" -> 1
      [] loop = "monitor" -> 2
      [] OTHER -> 3

\* what a widget can show: an icon name, a switch state, a label text
Values == {"a", "b"}

\* the threads a loop can have at once, and the timer callbacks looked at,
\* over all loops
MaxThreads == 2
MaxTicks == 3
Slots == 1..MaxThreads

NoThread == [at |-> "none", how |-> ""]
InFlight(loop) == { k \in Slots : w_threads[loop][k].at # "none" }
FreeSlot(loop) ==
    CHOOSE k \in Slots :
        /\ w_threads[loop][k].at = "none"
        /\ \A j \in 1..(k - 1) : w_threads[loop][j].at # "none"

\* a callback that never looks at the busy flag
GuardBusy_Ignored(flag) == FALSE

\* GUARD CHECK: the callback returns when the flag is set
GuardBusy(flag) == flag

\* SET LOCK and thread.start()
StartWorker(loop) ==
    /\ \E k \in Slots : w_threads[loop][k].at = "none"
    /\ w_busy' = [w_busy EXCEPT ![loop] = TRUE]
    /\ w_threads' = [w_threads EXCEPT ![loop][FreeSlot(loop)] =
                        [at |-> "enter", how |-> ""]]

\* the timer of a loop fires
Fires(loop) ==
    /\ SourceId(loop) \in w_timers
    /\ w_ticks["icon"] + w_ticks["monitor"] + w_ticks["value"] < MaxTicks
    /\ w_ticks' = [w_ticks EXCEPT ![loop] = @ + 1]

\* _update_icon and _monitor_state: busy flag first, then _is_destroyed
TimerCallback(loop) ==
    /\ Fires(loop)
    /\ IF GuardBusy(w_busy[loop])
       THEN UNCHANGED <<w_busy, w_threads, w_timers>>
       ELSE IF w_destroyed
            THEN /\ w_timers' = w_timers \ {SourceId(loop)}
                 /\ UNCHANGED <<w_busy, w_threads>>
            ELSE /\ StartWorker(loop)
                 /\ UNCHANGED w_timers
    /\ UNCHANGED <<w_class, w_destroyed, w_source, w_idle, w_shown, w_last,
                   w_dropped>>

update_icon == TimerCallback("icon")

monitor_state == TimerCallback("monitor")

\* LabelRow._trigger_update
trigger_update ==
    IF GuardBusy(w_busy["value"])
    THEN UNCHANGED <<w_busy, w_threads>>
    ELSE StartWorker("value")

\* LabelRow._on_timeout: _is_destroyed first, then the busy flag
on_timeout ==
    /\ Fires("value")
    /\ IF w_destroyed
       THEN /\ w_timers' = w_timers \ {SourceId("value")}
            /\ UNCHANGED <<w_busy, w_threads>>
       ELSE /\ trigger_update
            /\ UNCHANGED w_timers
    /\ UNCHANGED <<w_class, w_destroyed, w_source, w_idle, w_shown, w_last,
                   w_dropped>>

\* how the work of a wrapper can go: what ends it, and the value it hands
\* to GLib.idle_add, if it does
Res(how, deliver, value) == [how |-> how, deliver |-> deliver, value |-> value]
Results(loop) ==
    CASE loop = "icon" ->
             { Res("ok", TRUE, v) : v \in Values }
                 \cup { Res("empty", FALSE, ""), Res("timeout", FALSE, ""),
                        Res("raised", FALSE, "") }
      [] loop = "monitor" ->
             { Res("ok", TRUE, v) : v \in Values } \cup { Res("raised", FALSE, "") }
      [] OTHER ->
             { Res("ok", TRUE, v) : v \in Values }
                 \cup { Res("timeout", TRUE, "Timeout"), Res("raised", FALSE, "") }

\* a thread goes from one statement to the next
Moved(loop, k, at, how) ==
    w_threads' = [w_threads EXCEPT ![loop][k] = [at |-> at, how |-> how]]

\* the wrapper looks at _is_destroyed under the lock
WorkerEnter(loop, k) ==
    /\ w_threads[loop][k].at = "enter"
    /\ IF w_destroyed
       THEN Moved(loop, k, "finally", "early")
       ELSE Moved(loop, k, "run", "")
    /\ UNCHANGED <<w_class, w_destroyed, w_busy, w_source, w_timers, w_idle,
                   w_shown, w_ticks, w_last, w_dropped>>

\* the command or the file read, and GLib.idle_add of the result
WorkerRun(loop, k) ==
    /\ w_threads[loop][k].at = "run"
    /\ \E r \in Results(loop) :
          /\ Moved(loop, k, "finally", r.how)
          /\ w_idle' = IF r.deliver
                       THEN Append(w_idle, [loop |-> loop, value |-> r.value])
                       ELSE w_idle
    /\ UNCHANGED <<w_class, w_destroyed, w_busy, w_source, w_timers, w_shown,
                   w_ticks, w_last, w_dropped>>

\* RELEASE LOCK in the finally clause; the thread ends
WorkerFinally(loop, k) ==
    /\ w_threads[loop][k].at = "finally"
    /\ w_busy' = [w_busy EXCEPT ![loop] = FALSE]
    /\ w_last' = [w_last EXCEPT ![loop] = w_threads[loop][k].how]
    /\ w_threads' = [w_threads EXCEPT ![loop][k] = NoThread]
    /\ UNCHANGED <<w_class, w_destroyed, w_source, w_timers, w_idle, w_shown,
                   w_ticks, w_dropped>>

Worker(loop) ==
    \E k \in Slots :
        \/ WorkerEnter(loop, k)
        \/ WorkerRun(loop, k)
        \/ WorkerFinally(loop, k)

fetch_icon_wrapper == Worker("icon")

async_check_state_wrapper == Worker("monitor")

load_value_wrapper == Worker("value")

\* an apply callback that never looks at _is_destroyed
ApplyGuard_Missing(destroyed) == FALSE

\* the apply callback returns when the widget is destroyed
ApplyGuard(destroyed) == destroyed

\* the idle callback at the head of the queue runs: it changes what the
\* widget shows if the widget is alive and the value is another one
Apply(loop) ==
    /\ w_idle # <<>>
    /\ Head(w_idle).loop = loop
    /\ w_idle' = Tail(w_idle)
    /\ IF ApplyGuard(w_destroyed)
       THEN /\ w_dropped' = w_dropped + 1
            /\ UNCHANGED w_shown
       ELSE /\ w_shown' = IF w_shown[loop] # Head(w_idle).value
                          THEN [w_shown EXCEPT ![loop] = Head(w_idle).value]
                          ELSE w_shown
            /\ UNCHANGED w_dropped
    /\ UNCHANGED <<w_class, w_destroyed, w_busy, w_source, w_timers, w_threads,
                   w_ticks, w_last>>

apply_icon_update == Apply("icon")

apply_monitor_state == Apply("monitor")

update_label == Apply("value")

\* _on_destroy and _on_card_destroy
on_destroy ==
    /\ ~ w_destroyed
    /\ w_destroyed' = TRUE
    /\ w_timers' = w_timers \ { w_source[f] : f \in RemovedByDestroy(w_class) }
    /\ w_source' = [l \in Loops |->
                      IF l \in RemovedByDestroy(w_class) THEN None ELSE w_source[l]]
    /\ UNCHANGED <<w_class, w_busy, w_threads, w_idle, w_shown, w_ticks, w_last,
                   w_dropped>>

\* a widget after __init__: the timers of the loops its properties ask for
\* are registered, and a LabelRow has started its first worker
InitWidget ==
    /\ IdleScale
    /\ IdlePatch
    /\ IdleMain
    /\ IdleRace
    /\ IdleSearch
    /\ w_class \in Classes
    /\ w_destroyed = FALSE
    /\ w_busy = [l \in Loops |-> w_class = "LabelRow" /\ l = "value"]
    /\ \E registered \in SUBSET LoopsOf(w_class) :
          /\ w_source = [l \in Loops |->
                           IF l \in registered THEN SourceId(l) ELSE None]
          /\ w_timers = { SourceId(l) : l \in registered }
    /\ w_threads = [l \in Loops |-> [k \in Slots |->
                       IF w_class = "LabelRow" /\ l = "value" /\ k = 1
                       THEN [at |-> "enter", how |-> ""]
                       ELSE NoThread]]
    /\ w_idle = <<>>
    /\ w_shown = [l \in Loops |-> "a"]
    /\ w_ticks = [l \in Loops |-> 0]
    /\ w_last = [l \in Loops |-> ""]
    /\ w_dropped = 0

WidgetOthersIdle == UNCHANGED <<scaleVars, patchVars, mainVars, raceVars, searchVars>>

NextWidget ==
    \/ update_icon /\ WidgetOthersIdle
    \/ monitor_state /\ WidgetOthersIdle
    \/ on_timeout /\ WidgetOthersIdle
    \/ fetch_icon_wrapper /\ WidgetOthersIdle
    \/ async_check_state_wrapper /\ WidgetOthersIdle
    \/ load_value_wrapper /\ WidgetOthersIdle
    \/ apply_icon_update /\ WidgetOthersIdle
    \/ apply_monitor_state /\ WidgetOthersIdle
    \/ update_label /\ WidgetOthersIdle
    \/ on_destroy /\ WidgetOthersIdle

SpecWidget == InitWidget /\ [][NextWidget]_vars

----------------------------------------------------------------------------
(* dusky_control_center.py: the debounced search.  The handlers run on the  *)
(* main loop, one at a time; the interface is built before the first of     *)
(* them runs                                                                *)

\* texts of the search entry
Texts == {"", "Wi", "net "}

\* the search-changed events looked at
MaxChanges == 4

UPPER == "ABCDEFGHIJKLMNOPQRSTUVWXYZ"
LOWER == "abcdefghijklmnopqrstuvwxyz"
LowerCh(c) ==
    IF \E i \in 1..Len(UPPER) : Ch(UPPER, i) = c
    THEN Ch(LOWER, CHOOSE i \in 1..Len(UPPER) : Ch(UPPER, i) = c)
    ELSE c

\* str.lower()
RECURSIVE Lower(_)
Lower(s) == IF s = "" THEN "" ELSE LowerCh(Ch(s, 1)) \o Lower(SubSeq(s, 2, Len(s)))

\* a source_remove that removes nothing
Cancelled_None(timers, source) == timers

\* GLib.source_remove(source)
Cancelled(timers, source) == { t \in timers : t.id # source }

\* _on_search_changed: the entry has a new text
on_search_changed ==
    /\ ~ s_shutdown
    /\ s_changes < MaxChanges
    /\ \E text \in Texts \ {s_entry} :
          /\ s_entry' = text
          /\ s_timers' = (IF s_source # None
                          THEN Cancelled(s_timers, s_source)
                          ELSE s_timers)
                             \cup { [id |-> s_next_id, text |-> text] }
    /\ s_source' = s_next_id
    /\ s_next_id' = s_next_id + 1
    /\ s_burst' = s_burst + 1
    /\ s_changes' = s_changes + 1
    /\ UNCHANGED <<s_view, s_title, s_executed, s_shutdown>>

\* _execute_search_delayed: a pending timer fires with the text it was
\* given; the rows of the results are not modelled
execute_search_delayed ==
    \E t \in s_timers :
        LET query == Lower(Strip(t.text))
        IN  /\ s_source' = None
            /\ s_timers' = s_timers \ {t}
            /\ IF query = ""
               THEN /\ s_title' = "Search Results"
                    /\ UNCHANGED s_view
               ELSE /\ s_view' = "search-results"
                    /\ s_title' = "Results for '" \o query \o "'"
            /\ s_executed' = Append(s_executed, [text |-> t.text, burst |-> s_burst])
            /\ s_burst' = 0
            /\ UNCHANGED <<s_entry, s_next_id, s_changes, s_shutdown>>

\* do_shutdown
do_shutdown ==
    /\ ~ s_shutdown
    /\ s_shutdown' = TRUE
    /\ IF s_source # None
       THEN /\ s_timers' = Cancelled(s_timers, s_source)
            /\ s_source' = None
       ELSE UNCHANGED <<s_timers, s_source>>
    /\ UNCHANGED <<s_entry, s_next_id, s_view, s_title, s_executed, s_burst,
                   s_changes>>

InitSearch ==
    /\ IdleScale
    /\ IdlePatch
    /\ IdleMain
    /\ IdleRace
    /\ IdleWidget
    /\ s_entry = ""
    /\ s_source = None
    /\ s_timers = {}
    /\ s_next_id = 1
    /\ s_view = "page-0"
    /\ s_title = "Search Results"
    /\ s_executed = <<>>
    /\ s_burst = 0
    /\ s_changes = 0
    /\ s_shutdown = FALSE

SearchOthersIdle == UNCHANGED <<scaleVars, patchVars, mainVars, raceVars, widgetVars>>

NextSearch ==
    \/ on_search_changed /\ SearchOthersIdle
    \/ execute_search_delayed /\ SearchOthersIdle
    \/ do_shutdown /\ SearchOthersIdle

SpecSearch == InitSearch /\ [][NextSearch]_vars

----------------------------------------------------------------------------
(* Properties of the resolver *)

Range(q) == { q[i] : i \in 1..Len(q) }
StepSet == Range(SCALE_STEPS)
\* the admissible set compute_next_scale uses for the monitor of the state
Admissible == Range(valid_scales(sc_size[1], sc_size[2]))

\* the filter as section 8 states it: w/s >= 640, h/s >= 360 and both
\* quotients within 0.01 of an integer (quotients as doubles)
PassesFilter(s) ==
    /\ ~ QuotientBelow(sc_size[1], s, MIN_LOGICAL_WIDTH)
    /\ ~ QuotientBelow(sc_size[2], s, MIN_LOGICAL_HEIGHT)
    /\ ~ OffInteger(sc_size[1], s)
    /\ ~ OffInteger(sc_size[2], s)

\* s lies on the requested side of the current scale, by more than 1e-6
OnSide(s) ==
    IF sc_dir = "+" THEN AboveCurrent(s, sc_cur) ELSE BelowCurrent(s, sc_cur)

\* C1: compute_next_scale returns the smallest admissible scale above
\* current + 1e-6 for '+', the largest admissible scale below current - 1e-6
\* for '-', and None exactly when no admissible scale lies on that side.
C1_NearestStep ==
    sc_mode = "call" =>
        /\ (sc_ret = None) <=> ~ (\E s \in Admissible : OnSide(s))
        /\ sc_ret # None =>
              /\ sc_ret \in Admissible
              /\ OnSide(sc_ret)
              /\ \A s \in Admissible :
                    OnSide(s) => IF sc_dir = "+" THEN sc_ret <= s ELSE sc_ret >= s

\* a call that skipped an admissible scale lying within the epsilon of the
\* current scale and had more than one candidate to choose from
C1_Witness ==
    /\ sc_mode = "call"
    /\ sc_ret # None
    /\ \E s \in Admissible : Ticks(s) # sc_cur /\ ~ OnSide(s)
                              /\ Ticks(s) - sc_cur < EPSILON
                              /\ sc_cur - Ticks(s) < EPSILON
    /\ Cardinality({ s \in Admissible : OnSide(s) }) > 1

\* C2 as stated: a candidate of SCALE_STEPS is in the admissible set iff it
\* passes the filter.
C2_AdmissibleIffFilter ==
    \A s \in StepSet : (s \in Admissible) <=> PassesFilter(s)

\* C2 amended: a candidate is in the admissible set iff it passes the
\* filter, or no candidate passes the filter and it is 1.0.
C2_AdmissibleIffFilterOrFallback ==
    \A s \in StepSet :
        (s \in Admissible) <=>
            \/ PassesFilter(s)
            \/ s = STEP_UNIT /\ ~ (\E t \in StepSet : PassesFilter(t))

\* a size for which some candidates pass the filter and others fail either test
C2_Witness ==
    /\ sc_mode = "call"
    /\ \E s \in StepSet : PassesFilter(s)
    /\ \E s \in StepSet : OffInteger(sc_size[1], s) /\ s \notin Admissible
    /\ \E s \in StepSet : QuotientBelow(sc_size[1], s, MIN_LOGICAL_WIDTH)
                           /\ s \notin Admissible

\* C3: the admissible set is never empty; when no candidate passes the
\* filter it is exactly {1.0}, and the resolver then returns 1.0 or None.
C3_FallbackIsOne ==
    /\ Admissible # {}
    /\ ~ (\E t \in StepSet : PassesFilter(t)) =>
          /\ valid_scales(sc_size[1], sc_size[2]) = << STEP_UNIT >>
          /\ sc_mode = "call" => sc_ret \in { STEP_UNIT, None }

\* a call for a size no candidate fits, answered with 1.0
C3_Witness ==
    /\ sc_mode = "call"
    /\ ~ (\E t \in StepSet : PassesFilter(t))
    /\ sc_ret = STEP_UNIT

\* C4: iterating '+' from the minimum admissible scale visits every
\* admissible scale exactly once in strictly increasing order and then
\* returns None; '-' from the maximum does so in strictly decreasing order.
C4_WalkVisitsAll ==
    sc_mode = "walk" =>
        /\ \A i \in 1..Len(sc_trail) : sc_trail[i] \in Admissible
        /\ \A i \in 1..Len(sc_trail), j \in 1..Len(sc_trail) :
              i < j => IF sc_dir = "+" THEN sc_trail[i] < sc_trail[j]
                       ELSE sc_trail[i] > sc_trail[j]
        /\ sc_trail[1] = IF sc_dir = "+"
                         THEN CHOOSE m \in Admissible : \A s \in Admissible : m <= s
                         ELSE CHOOSE m \in Admissible : \A s \in Admissible : m >= s
        /\ sc_ret = None => Range(sc_trail) = Admissible
        /\ sc_ret # None => Range(sc_trail) # Admissible

\* a finished iteration over an admissible set of several scales
C4_Witness ==
    /\ sc_mode = "walk"
    /\ sc_ret = None
    /\ Len(sc_trail) > 3
    /\ Range(sc_trail) = Admissible

----------------------------------------------------------------------------
(* Properties of the patcher *)

LastCall == pt_calls[Len(pt_calls)]

\* occurrences of `name` as a whole word in s, from position i
NameCount(s, name) ==
    Cardinality({ i \in 1..Len(s) : /\ LitAt(s, i, name)
                                    /\ WordBoundary(s, i)
                                    /\ WordBoundary(s, i + Len(name)) })

\* C5: applying the same (monitor_name, scale) a second time leaves the file
\* byte-identical to the result of the first application.
C5_Idempotent ==
    (Len(pt_calls) >= 2 /\ LastCall = pt_calls[Len(pt_calls) - 1])
        => pt_file = pt_prev

\* a repeated call on a file whose block for the monitor had no scale field:
\* the first call changed the file, the second did not
C5_Witness ==
    /\ pt_orig = ConfigText(7, 1)
    /\ pt_calls = << <<MONITOR_A, PatchScaleList[1]>>, <<MONITOR_A, PatchScaleList[1]>> >>
    /\ pt_prev # pt_orig
    /\ pt_file = pt_prev

\* C6: a call for one monitor leaves every byte of the other monitor's
\* entry unchanged: an entry the file held before the call, it holds after.
C6_NonInterference ==
    Len(pt_calls) >= 1 =>
        \A other \in MonitorNames \ { LastCall[1] }, f \in Forms :
            (Entry(other, f) # "" /\ Contains(pt_prev, Entry(other, f))
                /\ NameCount(pt_prev, LastCall[1]) > 0)
              => Contains(pt_file, Entry(other, f))

\* the same for the entries that hold no carriage return
C6_NonInterferenceLF ==
    Len(pt_calls) >= 1 =>
        \A other \in MonitorNames \ { LastCall[1] }, f \in Forms :
            (Entry(other, f) # "" /\ Contains(pt_prev, Entry(other, f))
                /\ ~ Contains(Entry(other, f), "\r"))
              => Contains(pt_file, Entry(other, f))

\* C7: when the monitor has no entry, two calls for it leave exactly one
\* entry for it, and that entry carries the scale of the second call.
C7_AppendThenPatch ==
    (/\ Len(pt_calls) = 2
     /\ pt_calls[1][1] = pt_calls[2][1]
     /\ NameCount(pt_orig, pt_calls[1][1]) = 0)
        => /\ NameCount(pt_file, pt_calls[2][1]) = 1
           /\ Contains(pt_file, "\nmonitor = " \o pt_calls[2][1] \o ", preferred, auto, "
                                  \o FormatG(pt_calls[2][2]) \o "\n")

\* an entry appended to a file that holds another monitor's block, then
\* patched with another scale
C7_Witness ==
    /\ pt_orig = ConfigText(6, 8)
    /\ Len(pt_calls) = 2
    /\ pt_calls[1][1] = MONITOR_B
    /\ pt_calls[2][1] = MONITOR_B
    /\ pt_calls[1][2] # pt_calls[2][2]
    /\ NameCount(pt_file, MONITOR_B) = 1


\* the file existed before the last call
ExistedBefore == Len(pt_calls) >= 2 \/ (Len(pt_calls) = 1 /\ pt_orig # "")

ShorterLen(a, b) == IF Len(a) < Len(b) THEN Len(a) ELSE Len(b)

\* the length of the longest common prefix of a and b
CommonPrefix(a, b) ==
    CHOOSE n \in 0..ShorterLen(a, b) :
        /\ SubSeq(a, 1, n) = SubSeq(b, 1, n)
        /\ n = ShorterLen(a, b) \/ Ch(a, n + 1) # Ch(b, n + 1)

\* the length of their longest common suffix that leaves that prefix alone
CommonSuffix(a, b) ==
    LET room == ShorterLen(a, b) - CommonPrefix(a, b)
    IN  CHOOSE n \in 0..room :
            /\ SubSeq(a, Len(a) - n + 1, Len(a)) = SubSeq(b, Len(b) - n + 1, Len(b))
            /\ n = room \/ Ch(a, Len(a) - n) # Ch(b, Len(b) - n)

\* the part of `before` between what it shares with `after` at both ends:
\* the bytes of the old file that the call replaced or removed
ChangedRegion(before, after) ==
    SubSeq(before, CommonPrefix(before, after) + 1,
           Len(before) - CommonSuffix(before, after))

\* C17: a call on a file that exists replaces bytes of one line of it at
\* most (the scale value of the one entry patched), or replaces none and
\* only adds text: the bytes of the old file that are not in the new one at
\* their place hold no line break
C17_OnlyOneLineTouched ==
    ExistedBefore =>
        /\ ~ Contains(ChangedRegion(pt_prev, pt_file), "\n")
        /\ ~ Contains(ChangedRegion(pt_prev, pt_file), "\r")

\* the same for the files that have no carriage return and no second entry
\* for the monitor
C17_OnlyOneLineTouchedPlainFiles ==
    (ExistedBefore /\ ~ Contains(pt_prev, "\r")
       /\ NameCount(pt_prev, LastCall[1]) <= 1)
      => ~ Contains(ChangedRegion(pt_prev, pt_file), "\n")

\* the second of the two entries of form 10
LaterEntry(name) == "monitor = " \o name \o ", 1920x1080, 0x0, 2\n"

\* C18: when the file holds two entries for the monitor of the call, the
\* second of them is in the file after the call byte for byte
C18_FirstMatchWins ==
    (Len(pt_calls) >= 1 /\ Contains(pt_prev, Entry(LastCall[1], 10)))
        => Contains(pt_file, LaterEntry(LastCall[1]))

\* the trailing comment, with the whitespace before it, of the entry forms
\* that have one on the line of the scale
CommentedForms == { 1, 5, 11 }
EntryComment(f) ==
    CASE f = 1 -> "  # main\n"
      [] f = 5 -> " # rot\n"
      [] OTHER -> " # hidpi\n"

\* C19: a call for a monitor whose entry has a trailing comment on the line
\* of the scale leaves that comment, with its leading whitespace, on the
\* entry: monitor lines and monitorv2 blocks alike
C19_CommentPreserved ==
    Len(pt_calls) >= 1 =>
        \A f \in CommentedForms \cap Forms :
            Contains(pt_prev, Entry(LastCall[1], f))
              => \E i \in 1..Len(pt_file) :
                    /\ LitAt(pt_file, i, LastCall[1])
                    /\ Contains(SubSeq(pt_file, i, Len(pt_file)), EntryComment(f))

\* the same for monitor lines only
C19_CommentPreservedV1 ==
    Len(pt_calls) >= 1 =>
        \A f \in { 1, 5 } :
            Contains(pt_prev, Entry(LastCall[1], f))
              => Contains(pt_file, EntryComment(f))

\* what the monitor line of each of the forms 1 to 5 is to become, the scale
\* being written as `text`
ExpectedV1(name, f, text) ==
    CASE f = 1 -> "monitor = " \o name \o ", 1920x1080@60, 0x0, " \o text \o "  # main\n"
      [] f = 2 -> "monitor=" \o name \o ",preferred,auto, " \o text \o "\n"
      [] f = 3 -> "monitor = " \o name \o ", preferred, auto, " \o text \o "\n"
      [] f = 4 -> "monitor = " \o name \o ", preferred, auto, " \o text \o "\n"
      [] OTHER -> "  monitor = " \o name \o ", 2560x1440, 1920x0, " \o text
                    \o ", transform, 1 # rot\n"

\* C23: a monitor line of the target is rewritten by the number of its
\* fields, the name counting as the first: "disable" as the second of two
\* becomes "preferred, auto, <scale>"; another second of two is followed by
\* " auto" and the scale; three fields are followed by the scale; of four or
\* more the fourth is replaced by the scale and the later ones are kept
C23_V1FieldRules ==
    Len(pt_calls) >= 1 =>
        \A f \in 1..5 :
            Contains(pt_prev, Entry(LastCall[1], f))
              => Contains(pt_file, ExpectedV1(LastCall[1], f, FormatG(LastCall[2])))

\* a line of six fields and a comment: the fourth field is the scale, the
\* fifth and sixth and the comment are as they were
C23_Witness ==
    /\ Len(pt_calls) = 1
    /\ pt_orig = ConfigText(5, 4)
    /\ LastCall[1] = MONITOR_A
    /\ Contains(pt_file, ExpectedV1(MONITOR_A, 5, FormatG(LastCall[2])))
    /\ Contains(pt_file, Entry(MONITOR_B, 4))

\* what the block of each of the forms 6, 7 and 11 is to become
ExpectedV2(name, f, text) ==
    CASE f = 6 -> "monitorv2 {\n    output = " \o name
                    \o "\n    mode = 1920x1080\n    scale = " \o text \o "\n}\n"
      [] f = 7 -> "monitorv2 {\n  output = " \o name
                    \o "\n  position = 0x0\n    scale = " \o text \o "\n}\n"
      [] OTHER -> "monitorv2 {\n  output = " \o name
                    \o "\n  scale = " \o text \o " # hidpi\n}\n"

\* C24: a monitorv2 block of the target with a scale line has the value of
\* that line replaced and nothing else; one without has one scale line
\* inserted just before its closing brace; every other line of the block is
\* as it was
C24_V2BlockRewrite ==
    Len(pt_calls) >= 1 =>
        \A f \in { 6, 7, 11 } :
            Contains(pt_prev, Entry(LastCall[1], f))
              => Contains(pt_file, ExpectedV2(LastCall[1], f, FormatG(LastCall[2])))

\* the same for the blocks whose scale line, if any, ends with the value
C24_V2BlockRewritePlainScale ==
    Len(pt_calls) >= 1 =>
        \A f \in { 6, 7 } :
            Contains(pt_prev, Entry(LastCall[1], f))
              => Contains(pt_file, ExpectedV2(LastCall[1], f, FormatG(LastCall[2])))

\* the last call appended its entry to what it read
Appended ==
    pt_file = ReadText(pt_prev, 1)
                \o AppendedEntry(LastCall[1], FormatG(LastCall[2]))

\* C25: a block of the target is patched and a monitor line of the target
\* that comes with it is left as it was; and the call appends
\* "monitor = <name>, preferred, auto, <scale>" exactly when the file has
\* neither a block nor a line of that very name
C25_OnePathByPriority ==
    Len(pt_calls) >= 1 =>
        /\ Contains(pt_prev, Entry(LastCall[1], 12))
             => Contains(pt_file,
                         "monitorv2 {\n  output = " \o LastCall[1] \o "\n  scale = "
                           \o FormatG(LastCall[2]) \o "\n}\nmonitor = " \o LastCall[1]
                           \o ", preferred, auto, 2\n")
        /\ Appended <=> NameCount(pt_prev, LastCall[1]) = 0
        /\ Appended => NameCount(pt_file, LastCall[1]) = 1

\* a call for DP-1 on a file with a block and a line for it, and a call for
\* DP-1 again
C25_Witness ==
    /\ Len(pt_calls) = 2
    /\ pt_orig = ConfigText(12, 8)
    /\ pt_calls[1][1] = MONITOR_A
    /\ pt_calls[2][1] = MONITOR_A
    /\ Contains(pt_file, "monitor = " \o MONITOR_A \o ", preferred, auto, 2\n")
    /\ Contains(pt_file, "scale = " \o FormatG(LastCall[2]) \o "\n}")
    /\ ~ Appended

----------------------------------------------------------------------------
(* Properties of a run *)

\* C8: whatever a concurrent reader of the config path reads between the
\* creation of the temp file and the return of update_config_atomically, it
\* is a file that exists and holds either the whole content read at line 109
\* or the whole content computed from it, nothing else
C8_AtomicRewrite ==
    \A i \in 1..Len(rd_obs) :
        /\ rd_obs[i].exists
        /\ rd_obs[i].data \in { rd_pre, rd_post }

\* a reader has read the old content while the temp file holds a proper,
\* non-empty prefix of the new one
C8_Witness ==
    /\ pc = "up_flush"
    /\ rd_obs # <<>>
    /\ rd_obs[1].data = up_old
    /\ up_old # up_new
    /\ fs.tmp.exists
    /\ fs.tmp.data # ""
    /\ fs.tmp.data # up_new

\* C9: when the process has exited after a step of the write sequence
\* failed (mkstemp, the write, chmod or the rename), the config file is
\* there with the content it had when the sequence began (and, in the first
\* call on a file that existed, with its mode), there is no temp file, and
\* the exit status is not 0
C9_FailureLeavesOriginal ==
    (pc = "exited" /\ up_failed # "") =>
        /\ fs.conf.exists
        /\ fs.conf.data = up_old
        /\ (up_call = 1 /\ fs0.exists) => fs.conf = fs0
        /\ ~ fs.tmp.exists
        /\ exit_code # 0
        /\ exit_code # RUNNING

\* the rename failed after the temp file was written in full, the new
\* content differing from the old
C9_Witness ==
    /\ pc = "exited"
    /\ up_failed = "replace"
    /\ up_old # up_new
    /\ up_old # ""
    /\ exit_code = 1

\* the resolver was called and returned None
LimitPath == current_scale # 0 /\ new_scale = None /\ pc # "resolve"

\* C10: once compute_next_scale has returned None the config file is never
\* written or created, no temp file appears, nothing is reloaded, the
\* monitors are not queried again, and the run ends with status 0 having
\* called notify once, for "Limit Reached"
C10_LimitIsNoOp ==
    LimitPath =>
        /\ pc \in { "limit", "exited" }
        /\ fs = [conf |-> fs0, tmp |-> NoFile]
        /\ up_call = 0
        /\ reloads = 0
        /\ ~ wm_pending
        /\ polls = 0
        /\ queries = 1
        /\ pc = "limit" => notes = <<>> /\ exit_code = RUNNING
        /\ pc = "exited" =>
              /\ notes = << Note("Monitor Scale",
                                 "Limit Reached: " \o FormatG(current_scale),
                                 "normal") >>
              /\ Len(delivered) <= 1
              /\ exit_code = 0

\* "+" at 3.0, the top of the list, with no config file
C10_Witness ==
    /\ pc = "exited"
    /\ LimitPath
    /\ argv = << "+" >>
    /\ current_scale = Ticks(30000)
    /\ fs0 = NoFile
    /\ Len(notes) = 1
    /\ exit_code = 0


\* the two scales are within 1e-6 of each other
WithinTolerance(a, b) == a - b <= EPSILON /\ b - a <= EPSILON

\* the polling loop has ended and line 212 has been evaluated
PastVerify == reloads = 1 /\ (up_call = 2 \/ notes # <<>>)

AppliedTitle == "Display Scale: " \o FormatG(Ticks(new_scale))
AdjustedTitle == "Scale Adjusted"

\* what a run that went through line 212 has done when it is over: one
\* notification, "Display Scale" and a single patch when the observed scale
\* is the requested one within 1e-6, else "Scale Adjusted" after a second
\* patch, made with the observed scale
ReconciledAtExit ==
    /\ Len(notes) = 1
    /\ notes[1].title \in { AppliedTitle, AdjustedTitle }
    /\ notes[1].title = AppliedTitle <=> WithinTolerance(actual_scale, Ticks(new_scale))
    /\ notes[1].title = AppliedTitle => up_call = 1 /\ up_scale = Ticks(new_scale)
    /\ notes[1].title = AdjustedTitle =>
          /\ up_call = 2
          /\ up_scale = actual_scale
          /\ fs.conf.data = up_new

\* C11 as stated: every run that completes polling ends with exactly one of
\* the two final notifications
C11_ExactlyOneFinalNote ==
    (pc = "exited" /\ PastVerify) => ReconciledAtExit

\* C11: every run that completes polling and exits with status 0 ends with
\* exactly one of the two final notifications, "Display Scale" iff the
\* observed scale is the requested one within 1e-6 and then with no second
\* patch, else "Scale Adjusted" after a second patch with the observed
\* scale; a run whose second patch fails exits non-zero with neither
C11_ExactlyOneFinalNoteUnlessPatchFails ==
    (pc = "exited" /\ PastVerify) =>
        /\ exit_code = 0 => ReconciledAtExit
        /\ exit_code # 0 =>
              /\ notes = <<>>
              /\ up_call = 2
              /\ up_failed # ""
              /\ ~ WithinTolerance(actual_scale, Ticks(new_scale))

\* the compositor clamped the request to 1.0 and the file was patched again
C11_Witness ==
    /\ pc = "exited"
    /\ PastVerify
    /\ Len(notes) = 1
    /\ notes[1].title = AdjustedTitle
    /\ actual_scale = ONE
    /\ new_scale = 12500
    /\ up_call = 2
    /\ exit_code = 0


\* the number a string of decimal digits denotes
RECURSIVE DigitsValue(_)
DigitsValue(s) ==
    IF s = "" THEN 0
    ELSE 10 * DigitsValue(SubSeq(s, 1, Len(s) - 1))
           + (CHOOSE d \in 0..9 : Digit(d) = Ch(s, Len(s)))

\* the scale, in ticks of 10^-7, that a decimal numeral of at most seven
\* decimals denotes
ScaleOfText(s) ==
    LET dot == Find(s, 1, ".")
        frac == SubSeq(s, dot + 1, Len(s))
    IN  DigitsValue(SubSeq(s, 1, dot - 1)) * 10000000
          + DigitsValue(frac \o SubSeq("0000000", 1, 7 - Len(frac)))

\* the text of the scale a config file gives for a monitor: the value of the
\* scale line of its first monitorv2 block, else the fourth field of its
\* first monitor line
PersistedScaleText(t, name) ==
    LET blocks == { j \in 1..Len(t) :
                      V2At(t, j) /\ HasOutput(SubSeq(t, j, V2Close(t, j)), name) }
        b == FirstMatch(t, 1, blocks)
        block == SubSeq(t, b, V2Close(t, b))
        s == FirstMatch(block, 1, { j \in 1..Len(block) : ScaleAt(block, j) })
        lines == { j \in 1..Len(t) :
                     V1At(t, j)
                       /\ Strip(SubSeq(t, V1Name(t, j), V1Comma(t, j) - 1)) = name }
        l == FirstMatch(t, 1, lines)
        remainder == SubSeq(t, V1Comma(t, l), LineEnd(t, V1Comma(t, l)) - 1)
        parts == Split(SubSeq(remainder, 1, CommentStart(remainder) - 1), 1)
    IN  IF blocks # {}
        THEN Strip(SubSeq(block, ScaleEq(block, s) + 1,
                          LineEnd(block, ScaleEq(block, s)) - 1))
        ELSE Strip(parts[4])

PersistedScale(t, name) == ScaleOfText(PersistedScaleText(t, name))

\* C12: when a run that patched the file has reached the end of main, the
\* scale the file gives for the selected monitor is, within 1e-6, the scale
\* of the last poll
C12_PersistedIsPolled ==
    (pc = "exited" /\ exit_code = 0 /\ reloads = 1) =>
        WithinTolerance(PersistedScale(fs.conf.data, mon_name), actual_scale)


\* monitor i is the one the selection rule names: the first of that name
\* under an override, else the first focused one, else the first
IsSelection(monitors, override, i) ==
    IF override # ""
    THEN /\ monitors[i].name = override
         /\ \A k \in 1..(i - 1) : monitors[k].name # override
    ELSE IF \E k \in 1..Len(monitors) : monitors[k].focused
    THEN /\ monitors[i].focused
         /\ \A k \in 1..(i - 1) : ~ monitors[k].focused
    ELSE i = 1

\* C13: what get_active_monitor returned at line 187 is the name, size and
\* scale of the monitor the selection rule names; under an override that
\* names no monitor of a non-empty list nothing is ever selected and the
\* process exits non-zero
C13_MonitorSelection ==
    /\ pc = "resolve" =>
          \E i \in 1..Len(wm_monitors) :
              /\ IsSelection(wm_monitors, env_override, i)
              /\ mon_name = wm_monitors[i].name
              /\ phys_size = << wm_monitors[i].width, wm_monitors[i].height >>
              /\ current_scale = wm_monitors[i].scale
    /\ ( /\ env_override # ""
         /\ wm_monitors # <<>>
         /\ \A k \in 1..Len(wm_monitors) : wm_monitors[k].name # env_override )
       => /\ mon_name = ""
          /\ pc \in { "start", "query", "exited" }
          /\ pc = "exited" => exit_code = 1

\* the override names the second monitor while the first one has the focus
C13_Witness ==
    /\ pc = "resolve"
    /\ env_override = MONITOR_B
    /\ Len(wm_monitors) = 2
    /\ wm_monitors[1].focused
    /\ mon_name = MONITOR_B
    /\ phys_size = << 2560, 1440 >>


\* C14: with arguments other than exactly one "+" or "-", the run does
\* nothing but print the usage line and exit with status 1: no monitor
\* query, no read or write of the config file, no temp file, no reload, no
\* notification
C14_UsageError ==
    argv \notin { << "+" >>, << "-" >> } =>
        /\ pc \in { "start", "exited" }
        /\ queries = 0
        /\ fs = [conf |-> fs0, tmp |-> NoFile]
        /\ up_call = 0
        /\ reloads = 0
        /\ ~ wm_pending
        /\ notes = <<>>
        /\ pc = "start" => log = <<>> /\ exit_code = RUNNING
        /\ pc = "exited" =>
              /\ Len(log) = 1
              /\ log[1].tag = "USAGE"
              /\ exit_code = 1

\* two arguments, each of them valid alone
C14_Witness ==
    /\ pc = "exited"
    /\ argv = << "+", "-" >>
    /\ exit_code = 1
    /\ Len(log) = 1


\* the messages of the fatal conditions of get_active_monitor
QueryFatals ==
    { "Cannot communicate with Hyprland IPC.",
      "'hyprctl' binary not found in PATH.",
      "Invalid JSON returned by Hyprland.",
      "No active monitors found." }
    \cup { "Target monitor '" \o o \o "' not found." : o \in Overrides \ { "" } }

\* the run ended on one of the three paths that end with a notification
EndedWithNote ==
    /\ Len(notes) = 1
    /\ \/ notes[1].title = "Monitor Scale" /\ new_scale = None
       \/ notes[1].title = AdjustedTitle /\ new_scale # None
       \/ new_scale # None /\ notes[1].title = AppliedTitle

\* the run ended on a usage error, a failed query (the first one or a
\* poll), or a failed write sequence
EndedFatally ==
    \/ argv \notin { << "+" >>, << "-" >> }
    \/ log # <<>> /\ log[Len(log)].msg \in QueryFatals
    \/ log # <<>> /\ log[Len(log)].msg = "KeyError"
    \/ up_failed # ""

\* C15: a run that has exited has status 0 exactly when it ended on the
\* applied, the adjusted or the limit-reached path, and status 1 whenever
\* it ended on a usage error, on a query that failed (at line 187 or in the
\* polling loop) or on a failed write sequence
C15_ExitStatus ==
    pc = "exited" =>
        /\ exit_code \in { 0, 1 }
        /\ exit_code = 0 <=> EndedWithNote
        /\ EndedFatally => exit_code = 1

\* the compositor stopped answering during the polling loop
C15_Witness ==
    /\ pc = "exited"
    /\ exit_code = 1
    /\ reloads = 1
    /\ polls >= 1
    /\ log[Len(log)].msg = "Cannot communicate with Hyprland IPC."


\* the run ended on one of the fatal conditions of get_active_monitor or on
\* a failed step of the write sequence
EndedOnFatalCondition ==
    /\ pc = "exited"
    /\ \/ log # <<>> /\ log[Len(log)].msg \in QueryFatals
       \/ up_failed # ""

\* the lines log_err wrote
ErrorLines == { i \in 1..Len(log) : log[i].tag = "ERROR" }

\* C16: a run that ended on a fatal condition wrote exactly one line through
\* log_err, and nothing else in place of it, before it exited non-zero, and
\* the config file holds what it held before the write sequence or the
\* whole new content
C16_OneDiagnosticLine ==
    EndedOnFatalCondition =>
        /\ Cardinality(ErrorLines) = 1
        /\ log[Len(log)].tag = "ERROR"
        /\ exit_code = 1
        /\ IF up_call = 0 THEN fs.conf = fs0
           ELSE fs.conf.exists /\ fs.conf.data \in { up_old, up_new }

\* the same for the fatal conditions other than a failing mkstemp
C16_OneDiagnosticLineAfterMkstemp ==
    (EndedOnFatalCondition /\ up_failed # "mkstemp") =>
        /\ Cardinality(ErrorLines) = 1
        /\ log[Len(log)].tag = "ERROR"
        /\ exit_code = 1
        /\ IF up_call = 0 THEN fs.conf = fs0
           ELSE fs.conf.exists /\ fs.conf.data \in { up_old, up_new }


\* C21: a step that calls notify ends the run with status 0, without a
\* traceback and with the directory, the locals of the update and the
\* counts of reloads and queries as they were, whether notify-send was
\* there to show the notification or not
C21_NotifyBestEffort ==
    [][Len(notes') > Len(notes) =>
          /\ pc \in { "limit", "verify", "notify_adjusted" }
          /\ pc' = "exited"
          /\ exit_code' = 0
          /\ \A i \in 1..Len(log') : log'[i].tag # "TRACEBACK"
          /\ fs' = fs
          /\ delivered' \in { delivered, Append(delivered, notes'[Len(notes')]) }
          /\ <<upVars, reloads, queries, polls>>' = <<upVars, reloads, queries, polls>>
      ]_vars

\* the adjusted path with notify-send missing: the file was patched twice,
\* nothing was shown, and the status is 0
C21_Witness ==
    /\ pc = "exited"
    /\ exit_code = 0
    /\ Len(notes) = 1
    /\ delivered = <<>>
    /\ up_call = 2
    /\ fs.conf.data = up_new

\* C22: the step at line 199 always leads to the polling loop and leaves
\* the patched file as it is, however the reload command ends
C22_ReloadNotFatal ==
    [][pc = "reload" /\ pc' # "reload" =>
          /\ pc' = "poll"
          /\ exit_code' = RUNNING
          /\ fs' = fs
      ]_vars

\* the same for a reload command that was started and exited, with any
\* status
C22_ReloadStatusIgnored ==
    [][pc = "reload" /\ reloads' = reloads + 1 =>
          /\ pc' = "poll"
          /\ exit_code' = RUNNING
          /\ fs' = fs
      ]_vars

\* the scale the window manager has for the selected monitor
ActiveScale ==
    wm_monitors[CHOOSE i \in 1..Len(wm_monitors) : wm_monitors[i].name = mon_name].scale

\* C26: the loop makes at most 25 polls; each poll reads the scale of the
\* monitor selected at the start and takes it as the observed scale; the
\* loop goes on exactly while the polls made are fewer than 25 and the scale
\* polled is the pre-change scale within 1e-6, and ends otherwise
C26_BoundedPolling ==
    /\ [](/\ polls <= MAX_POLLS
          /\ pc = "poll" =>
                /\ polls < MAX_POLLS
                /\ polls > 0 => WithinTolerance(actual_scale, current_scale))
    /\ [][polls' = polls + 1 =>
             /\ pc = "poll"
             /\ actual_scale' = ActiveScale
             /\ pc' = IF ~ WithinTolerance(ActiveScale, current_scale)
                           \/ polls' = MAX_POLLS
                      THEN "verify" ELSE "poll"
         ]_vars

\* the budget is used up with the window manager still to apply the reload
C26_Witness ==
    /\ pc = "verify"
    /\ polls = MAX_POLLS
    /\ actual_scale = current_scale
    /\ wm_pending

\* C27: once the run has exited with status 0 and the window manager has
\* applied the reload, whenever it did so, the scale the file gives for the
\* monitor is the active scale of the monitor within 1e-6 (for an active
\* scale that the file's six significant digits can hold)
C27_EventuallyConsistent ==
    (/\ pc = "exited"
     /\ exit_code = 0
     /\ reloads = 1
     /\ ~ wm_pending
     /\ ActiveScale # OWN_SCALE)
      => WithinTolerance(PersistedScale(fs.conf.data, mon_name), ActiveScale)

\* the same when the last poll saw the scale the window manager ended with
C27_ConsistentWhenSeen ==
    (/\ pc = "exited"
     /\ exit_code = 0
     /\ reloads = 1
     /\ ~ wm_pending
     /\ ActiveScale # OWN_SCALE
     /\ actual_scale = ActiveScale)
      => WithinTolerance(PersistedScale(fs.conf.data, mon_name), ActiveScale)

----------------------------------------------------------------------------
(* Properties of two invocations at once *)

\* the invocation whose rename was the last so far
LastRenamed == rc_renamed[Len(rc_renamed)]

\* C20: under every interleaving of two invocations, once a rename has
\* happened the config file holds exactly the config_text of the invocation
\* that renamed last, which is the patch of the content that invocation
\* read; before any rename it holds what it held at the start; and a config
\* file that exists never ceases to
C20_LastWriterWins ==
    /\ [](rc_pc # <<>> =>
            /\ rc_renamed # <<>> =>
                  /\ rc_fs.conf.exists
                  /\ rc_fs.conf.data = rc_text[LastRenamed]
                  /\ rc_text[LastRenamed] =
                        NewContent(rc_read[LastRenamed], rc_args[LastRenamed][1],
                                   rc_args[LastRenamed][2])
            /\ rc_renamed = <<>> => rc_fs.conf.data = rc_orig.data)
    /\ [][rc_fs.conf.exists => rc_fs'.conf.exists]_vars

\* both invocations read the original file, for different monitors, and the
\* first renamed after the second: the file has lost the second's patch
C20_Witness ==
    /\ rc_pc = [i \in Invocations |-> "returned"]
    /\ rc_renamed = << 2, 1 >>
    /\ rc_orig.exists
    /\ rc_read[1] = rc_orig.data
    /\ rc_read[2] = rc_orig.data
    /\ rc_args[1][1] # rc_args[2][1]
    /\ rc_fs.conf.data = rc_text[1]
    /\ rc_text[1] # rc_text[2]

----------------------------------------------------------------------------
(* Properties of a polling widget *)

\* the ways a worker can end
Endings == {"ok", "empty", "timeout", "raised", "early"}

\* C28: every loop has at most one worker in flight, and its busy flag is
\* set exactly while it has one; a timer callback that finds the flag set
\* starts no thread; and a worker that ends, however it ends, leaves the
\* flag cleared
C28_OneWorkerPerLoop ==
    /\ [](\A l \in Loops :
             /\ Cardinality(InFlight(l)) <= 1
             /\ w_busy[l] <=> InFlight(l) # {})
    /\ [][\A l \in Loops :
             (w_ticks'[l] # w_ticks[l] /\ w_busy[l]) => w_threads'[l] = w_threads[l]
         ]_vars
    /\ [][\A l \in Loops : \A k \in Slots :
             (w_threads[l][k].at # "none" /\ w_threads'[l][k].at = "none") =>
                 /\ ~ w_busy'[l]
                 /\ w_last'[l] \in Endings
         ]_vars

\* a worker that outlasted a timer interval raised, and a later timer
\* callback has started the next worker
C28_Witness ==
    \E l \in Loops :
        /\ w_ticks[l] = MaxTicks
        /\ w_last[l] = "raised"
        /\ w_busy[l]
        /\ InFlight(l) # {}

\* C29: once the destroy handler has run, what the widget shows does not
\* change, no worker is started, no timer of the widget is left in the main
\* loop and every source id field is None
C29_DestroyedWidgetUntouched ==
    /\ [](w_destroyed =>
             /\ w_timers = {}
             /\ \A l \in Loops : w_source[l] = None)
    /\ [][w_destroyed =>
             /\ w_shown' = w_shown
             /\ \A l \in Loops : \A k \in Slots :
                    w_threads[l][k].at = "none" => w_threads'[l][k].at = "none"
         ]_vars

\* an apply callback has discarded a result after the destroy handler ran
\* while a timer was registered
C29_Witness ==
    /\ w_destroyed
    /\ w_dropped > 0
    /\ \E l \in Loops : w_ticks[l] > 0

----------------------------------------------------------------------------
(* Properties of the search *)

\* C30: at most one debounce timer is pending, and search_debounce_source
\* holds its id exactly while it is; a search-changed event leaves the
\* timer it schedules as the only one; a search executes only after a
\* change, once for the changes since the last execution and with the text
\* of the latest of them; after do_shutdown no timer is pending and no
\* search executes
C30_Debounce ==
    /\ [](/\ Cardinality(s_timers) <= 1
          /\ s_source # None <=> s_timers # {}
          /\ \A t \in s_timers : t.id = s_source /\ t.text = s_entry
          /\ s_shutdown => s_timers = {} /\ s_source = None)
    /\ [][s_changes' # s_changes =>
             s_timers' = { [id |-> s_source', text |-> s_entry'] }
         ]_vars
    /\ [][s_executed' # s_executed =>
             /\ ~ s_shutdown
             /\ s_burst > 0
             /\ s_burst' = 0
             /\ s_executed' = Append(s_executed, [text |-> s_entry, burst |-> s_burst])
         ]_vars

\* a burst of three changes was followed by one search, and then by shutdown
\* with a timer pending
C30_Witness ==
    /\ s_shutdown
    /\ s_executed # <<>>
    /\ s_executed[1].burst = 3
    /\ s_burst > 0

====
